---------------------------- MODULE Spec2Model ----------------------------
(***************************************************************************)
(* A model of achron-replay-parser.py: the replay container (header parse, *)
(* raw envelope iteration, decoded-message iteration), the message and     *)
(* command constructors, and the per-player clock.                         *)
(*                                                                         *)
(* Conventions.                                                            *)
(*  - A byte buffer is a sequence of numbers in 0..255; Python's 0-based   *)
(*    offset o names element o+1 of the sequence.                          *)
(*  - A Python value that may be an int, a Player or None is a tagged      *)
(*    record (IntV, RefV, NoneV); UnsetV is an attribute never assigned.   *)
(*  - Player objects live in the heap "players"; RefV(i) is a reference to *)
(*    players[i].  A message keeps its reference after the seat is         *)
(*    unmapped, as the Python object does.                                 *)
(*  - A decoded str is the sequence of its code points; StrText renders it *)
(*    as text for the display forms.                                       *)
(*  - An exception is a record [kind, val]; val is the key of a KeyError.  *)
(*  - time_speed_factor is the pair <<numerator, denominator>> of the      *)
(*    Python number (2, 0.5, 0, 1): the doubles involved are exact, so the *)
(*    float arithmetic of _update_timestamp is exact rational arithmetic.  *)
(***************************************************************************)
EXTENDS Integers, Sequences, FiniteSets, TLC

VARIABLES
  data,             \* the buffer handed to Replay(data)
  pc,               \* "start" | "body" | "done" | "raised"
  exc,              \* the exception that ended the run (NoExc if none)
  replay,           \* the Replay object's fields once constructed
  offset,           \* raw_messages' cursor
  player_seat_map,  \* messages' seat -> Player reference map
  players,          \* heap of Player objects
  raw,              \* envelopes yielded by raw_messages, in order
  out,              \* messages yielded by messages(), in order
  probe             \* arguments and result of a directly called function

vars == <<data, pc, exc, replay, offset, player_seat_map, players, raw, out, probe>>

---------------------------------------------------------------------------
(* Python values and exceptions *)

IntV(n) == [tag |-> "int", v |-> n]
RefV(i) == [tag |-> "Player", v |-> i]
NoneV == [tag |-> "None", v |-> 0]
UnsetV == [tag |-> "unset", v |-> 0]

NoExc == [kind |-> "none", val |-> 0]
StructError == [kind |-> "struct.error", val |-> 0]
AttributeError == [kind |-> "AttributeError", val |-> 0]
TypeError == [kind |-> "TypeError", val |-> 0]
UnicodeDecodeError == [kind |-> "UnicodeDecodeError", val |-> 0]
AssertionError == [kind |-> "AssertionError", val |-> 0]
KeyError(k) == [kind |-> "KeyError", val |-> k]

Min(a, b) == IF a < b THEN a ELSE b

RECURSIVE Pow2(_)
Pow2(n) == IF n = 0 THEN 1 ELSE 2 * Pow2(n - 1)

---------------------------------------------------------------------------
(* struct and slices *)

\* data[a:b] for 0 <= a <= b: Python clamps a slice to the buffer's end.
PySlice(d, a, b) == SubSeq(d, a + 1, Min(b, Len(d)))

\* data[a:]
PySliceFrom(d, a) == SubSeq(d, a + 1, Len(d))

\* struct.unpack_from needs `size` bytes at `off`; otherwise struct.error.
CanUnpackFrom(d, off, size) == Len(d) - off >= size

\* struct.unpack needs exactly `size` bytes.
CanUnpack(d, size) == Len(d) = size

\* little-endian unsigned integer of `size` bytes at 0-based offset `off`
RECURSIVE LittleEndian(_, _, _)
LittleEndian(d, off, size) ==
  IF size = 0 THEN 0
  ELSE d[off + 1] + 256 * LittleEndian(d, off + 1, size - 1)

\* struct.calcsize("<" + len_type) for the length types the program uses
CalcSize(len_type) ==
  CASE len_type = "B" -> 1
    [] len_type = "H" -> 2
    [] len_type = "I" -> 4

\* value & (1 << x), computed bit by bit
RECURSIVE BitAnd(_, _)
BitAnd(a, b) ==
  IF a = 0 \/ b = 0 THEN 0
  ELSE (IF a % 2 = 1 /\ b % 2 = 1 THEN 1 ELSE 0) + 2 * BitAnd(a \div 2, b \div 2)

\* range(n): empty when n <= 0
PyRange(n) == 0 .. (n - 1)

\* _unpack_bitmask with one boolean per x in range(length); C9 tells it from
\* the code's
UnpackBitmaskFullWidth(value, length) ==
  [i \in 1 .. Cardinality(PyRange(length)) |-> BitAnd(value, Pow2(i - 1)) # 0]

\* _unpack_bitmask(value, length): one boolean per x in range(length - 1)
UnpackBitmask(value, length) ==
  [i \in 1 .. Cardinality(PyRange(length - 1)) |-> BitAnd(value, Pow2(i - 1)) # 0]

\* _read_length_prefixed_field(len_type, data, offset)
ReadLengthPrefixedField(len_type, d, off) ==
  IF ~CanUnpackFrom(d, off, CalcSize(len_type))
  THEN [exc |-> StructError, field |-> <<>>, offset |-> off]
  ELSE LET length == LittleEndian(d, off, CalcSize(len_type))
           o2 == off + CalcSize(len_type)
       IN [exc |-> NoExc, field |-> PySlice(d, o2, o2 + length), offset |-> o2 + length]

\* bytes.decode('ascii') succeeds iff every byte is below 128; the str has the
\* bytes' values as code points.
IsAscii(d) == \A i \in 1 .. Len(d) : d[i] < 128

\* data.decode('ascii') of the field r just read
DecodeField(r) ==
  IF r.exc # NoExc THEN r
  ELSE IF ~IsAscii(r.field) THEN [r EXCEPT !.exc = UnicodeDecodeError]
  ELSE r

\* _read_string(len_type, data, offset)
ReadString(len_type, d, off) == DecodeField(ReadLengthPrefixedField(len_type, d, off))

\* str.strip(): leading and trailing whitespace removed
Whitespace == (9 .. 13) \cup (28 .. 32)

RECURSIVE LStrip(_)
LStrip(s) == IF s # <<>> /\ Head(s) \in Whitespace THEN LStrip(Tail(s)) ELSE s

RECURSIVE RStrip(_)
RStrip(s) ==
  IF s # <<>> /\ s[Len(s)] \in Whitespace THEN RStrip(SubSeq(s, 1, Len(s) - 1)) ELSE s

Strip(s) == RStrip(LStrip(s))

---------------------------------------------------------------------------
(* Enumerations *)

GAME_TICKS_PER_SECOND == 18

NO_MESSAGE == 0
MESSAGE == 1
NEW_CLIENT == 2
NEW_BANNED_CLIENT == 3
DISCONNECTED == 4
ERROR == 5

SET_CONFIGURATION_PARAMETER == 7
CHRONAL_COMMANDS == 16
SEND_TEXT == 32
BROADCAST_TEXT == 33
UNPAUSE_ENGINE == 37
PAUSE_ENGINE == 38
SAVE_GAME == 40
SURRENDER == 41
GLOBAL_TIME_RATE_CHANGE_REQUEST == 71

MOVE_TIME_POSITION == 0
FOLLOW_TO_TIME == 1
ASSIGN_UNIT_OBJECTIVE == 2
ASSIGN_UNIT_OBJECTIVE_ONLY == 3
MARK_UNIT == 4
DELETE_EVENTS == 5
SET_BOOKMARK == 6
JUMP_TO_BOOKMARK == 7
CREATE_ALLIANCE == 8
BREAK_ALLIANCE == 9
GIVE_VISIBILITY_TO_PLAYER == 10
REVOKE_VISIBILITY_FROM_PLAYER == 11
GIVE_COMMAND_ABILITY_TO_PLAYER == 12
REVOKE_COMMAND_ABILITY_FROM_PLAYER == 13
FAST_TIME == 14
SLOW_TIME == 15
STOP_TIME == 16
NORMAL_TIME == 17
DEBUG_RELOAD_SCRIPTS == 18
DELETE_NEXT_COMMAND_AND_JUMP_TO_TIME == 19

\* Seems to be the player number for non-player-specific messages.
NONE_PLAYER == 255

---------------------------------------------------------------------------
(* Player *)

\* Player.__init__(seat, name)
Player(seat, name) ==
  [seat |-> seat, name |-> name, time_position |-> 0, last_timestamp |-> 0,
   time_speed_factor |-> <<1, 1>>]

\* a conversion that rounds down instead; C1 tells it from int()
PyIntRoundingDown(num, den) == num \div den

\* int(x) of the rational num/den (den > 0): truncation toward zero
PyInt(num, den) == IF num >= 0 THEN num \div den ELSE -((-num) \div den)

\* an update that leaves time_position alone; C16 tells it from the code's
UpdateTimestampKeepingPosition(p, timestamp) ==
  [p EXCEPT !.last_timestamp = timestamp]

\* an update that leaves last_timestamp alone; C2 tells it from the code's
UpdateTimestampKeepingLast(p, timestamp) ==
  [p EXCEPT !.time_position =
              @ + PyInt((timestamp - p.last_timestamp) * p.time_speed_factor[1],
                        2 * p.time_speed_factor[2])]

\* Player._update_timestamp(timestamp):
\*   delta_game_ticks = (timestamp - last) / 2.0
\*   time_position += int(delta_game_ticks * factor)
UpdateTimestamp(p, timestamp) ==
  LET delta == timestamp - p.last_timestamp
      f == p.time_speed_factor
  IN [p EXCEPT !.time_position = @ + PyInt(delta * f[1], 2 * f[2]),
               !.last_timestamp = timestamp]

\* the text of a decoded str: letters, digits and common punctuation as
\* themselves, any other code point as "?"
AsciiText ==
  <<" ", "!", "?", "#", "$", "%", "&", "'", "(", ")", "*", "+", ",", "-", ".", "/",
    "0", "1", "2", "3", "4", "5", "6", "7", "8", "9", ":", ";", "<", "=", ">", "?",
    "@", "A", "B", "C", "D", "E", "F", "G", "H", "I", "J", "K", "L", "M", "N", "O",
    "P", "Q", "R", "S", "T", "U", "V", "W", "X", "Y", "Z", "[", "?", "]", "^", "_",
    "?", "a", "b", "c", "d", "e", "f", "g", "h", "i", "j", "k", "l", "m", "n", "o",
    "p", "q", "r", "s", "t", "u", "v", "w", "x", "y", "z", "{", "|", "}", "~">>

RECURSIVE StrText(_)
StrText(s) ==
  IF s = <<>> THEN ""
  ELSE (IF Head(s) \in 32 .. 126 THEN AsciiText[Head(s) - 31] ELSE "?") \o StrText(Tail(s))

\* Player.__str__: "%s (player %d)" % (self.name, self.seat); %d of a seat
\* that is not a number raises TypeError.
\* a display without the seat; C10 tells it from Player.__str__
PlayerStrNameOnly(p) ==
  IF p.seat.tag # "int" THEN [exc |-> TypeError, text |-> ""]
  ELSE [exc |-> NoExc, text |-> StrText(p.name)]

PlayerStr(p) ==
  IF p.seat.tag # "int" THEN [exc |-> TypeError, text |-> ""]
  ELSE [exc |-> NoExc,
        text |-> StrText(p.name) \o " (player " \o ToString(p.seat.v) \o ")"]

---------------------------------------------------------------------------
(* Messages.  A message is [cls, timestamp, player, upd, f]: its class, its *)
(* timestamp, its player attribute, and the class's own fields f.  upd      *)
(* records the _update_timestamp call its constructor made (the player's    *)
(* clock before and after the call), or NoUpd when it made none.            *)

NoUpd == [called |-> FALSE, position |-> 0, last |-> 0, factor |-> <<1, 1>>,
          new_position |-> 0, new_last |-> 0]

Upd(before, after) ==
  [called |-> TRUE, position |-> before.time_position, last |-> before.last_timestamp,
   factor |-> before.time_speed_factor,
   new_position |-> after.time_position, new_last |-> after.last_timestamp]

NoFields == [none |-> TRUE]

Msg(cls, timestamp, player, upd, f) ==
  [cls |-> cls, timestamp |-> timestamp, player |-> player, upd |-> upd, f |-> f]

\* A constructor's outcome: the exception it raised (NoExc if none), the heap
\* as it left it, and the message built so far.
Built(e, heap, msg) == [exc |-> e, heap |-> heap, msg |-> msg]

\* BaseReplayMessage.__init__(timestamp, message, player, data) as class cls
BaseReplayMessageInit(cls, heap, timestamp, player) ==
  IF player = IntV(NONE_PLAYER)
  THEN Built(NoExc, heap, Msg(cls, timestamp, NoneV, NoUpd, NoFields))
  ELSE IF player.tag # "Player"
  THEN \* an int has no _update_timestamp
       Built(AttributeError, heap, Msg(cls, timestamp, UnsetV, NoUpd, NoFields))
  ELSE LET after == UpdateTimestamp(heap[player.v], timestamp)
       IN Built(NoExc, [heap EXCEPT ![player.v] = after],
                Msg(cls, timestamp, player, Upd(heap[player.v], after), NoFields))

\* NoOpMessage.__init__: sets the timestamp only
NoOpMessageInit(heap, timestamp, player, d) ==
  Built(NoExc, heap, Msg("NoOpMessage", timestamp, UnsetV, NoUpd, NoFields))

\* a constructor that makes a new Player from the name whatever the seat
\* resolved to; C19 tells it from the code's
NewClientMessageInitOverwriting(heap, timestamp, player, d) ==
  IF ~IsAscii(d)
  THEN Built(UnicodeDecodeError, heap,
             Msg("NewClientMessage", timestamp, UnsetV, NoUpd, NoFields))
  ELSE BaseReplayMessageInit("NewClientMessage",
                             Append(heap, Player(IF player.tag = "Player"
                                                 THEN heap[player.v].seat ELSE player,
                                                 d)),
                             timestamp, RefV(Len(heap) + 1))

\* NewClientMessage.__init__: a Player is made only when the seat did not
\* resolve to one
NewClientMessageInit(heap, timestamp, player, d) ==
  IF player.tag = "Player"
  THEN BaseReplayMessageInit("NewClientMessage", heap, timestamp, player)
  ELSE IF ~IsAscii(d)
  THEN Built(UnicodeDecodeError, heap,
             Msg("NewClientMessage", timestamp, UnsetV, NoUpd, NoFields))
  ELSE BaseReplayMessageInit("NewClientMessage", Append(heap, Player(player, d)),
                             timestamp, RefV(Len(heap) + 1))

\* NewBannedClientMessage.__init__: Player(player, ...) takes whatever the
\* seat resolved to as its seat
NewBannedClientMessageInit(heap, timestamp, player, d) ==
  IF ~IsAscii(d)
  THEN Built(UnicodeDecodeError, heap,
             Msg("NewBannedClientMessage", timestamp, UnsetV, NoUpd, NoFields))
  ELSE BaseReplayMessageInit("NewBannedClientMessage", Append(heap, Player(player, d)),
                             timestamp, RefV(Len(heap) + 1))

\* The outcome b of a super().__init__ call followed by the subclass's own
\* decoding: ok says whether the decoding succeeds, e is what it raises
\* otherwise, f are the fields it sets.
Then(b, ok, e, f) ==
  IF b.exc # NoExc THEN b
  ELSE IF ~ok THEN [b EXCEPT !.exc = e]
  ELSE [b EXCEPT !.msg.f = f]

\* PrivateChatMessage.__init__ after super().__init__ left b: recipient is
\* the 1-tuple unpack_from returns
PrivateChatMessageRest(b, d) ==
  IF b.exc # NoExc THEN b
  ELSE IF ~CanUnpackFrom(d, 0, 1) THEN [b EXCEPT !.exc = StructError]
  ELSE IF ~IsAscii(PySliceFrom(d, 1)) THEN [b EXCEPT !.exc = UnicodeDecodeError]
  ELSE [b EXCEPT !.msg.f = [recipient |-> <<LittleEndian(d, 0, 1)>>,
                            contents |-> Strip(PySliceFrom(d, 1))]]

\* PrivateChatMessage.__init__
PrivateChatMessageInit(heap, timestamp, player, d) ==
  PrivateChatMessageRest(
    BaseReplayMessageInit("PrivateChatMessage", heap, timestamp, player), d)

\* PublicChatMessage.__init__
PublicChatMessageInit(heap, timestamp, player, d) ==
  Then(BaseReplayMessageInit("PublicChatMessage", heap, timestamp, player),
       IsAscii(d), UnicodeDecodeError, [contents |-> Strip(d)])

\* GlobalTimeRateChange.__init__: the rate is kept as the 4 bytes' bit pattern
GlobalTimeRateChangeInit(heap, timestamp, player, d) ==
  Then(BaseReplayMessageInit("GlobalTimeRateChange", heap, timestamp, player),
       CanUnpack(d, 4), StructError,
       [rate_bits |-> IF CanUnpack(d, 4) THEN LittleEndian(d, 0, 4) ELSE 0])

\* SetConfigurationParameter.__init__ after super().__init__ left b and
\* _read_string("B", data) returned k
SetConfigurationParameterRest(b, k, d) ==
  IF b.exc # NoExc THEN b
  ELSE IF k.exc # NoExc THEN [b EXCEPT !.exc = k.exc]
  ELSE IF ~IsAscii(PySliceFrom(d, k.offset)) THEN [b EXCEPT !.exc = UnicodeDecodeError]
  ELSE [b EXCEPT !.msg.f = [key |-> k.field, val |-> PySliceFrom(d, k.offset)]]

\* SetConfigurationParameter.__init__
SetConfigurationParameterInit(heap, timestamp, player, d) ==
  SetConfigurationParameterRest(
    BaseReplayMessageInit("SetConfigurationParameter", heap, timestamp, player),
    ReadString("B", d, 0), d)

---------------------------------------------------------------------------
(* Commands *)

\* value | (1 << i), computed bit by bit
RECURSIVE BitOr(_, _)
BitOr(a, b) ==
  IF a = 0 THEN b
  ELSE IF b = 0 THEN a
  ELSE (IF a % 2 = 1 \/ b % 2 = 1 THEN 1 ELSE 0) + 2 * BitOr(a \div 2, b \div 2)

\* a mask of the bits 0 .. n, one more than _lower_bitmask; C11 tells it from
\* the code's
RECURSIVE LowerBitmaskPlusOne(_)
LowerBitmaskPlusOne(n) ==
  IF n < 0 THEN 0 ELSE BitOr(LowerBitmaskPlusOne(n - 1), Pow2(n))

\* _lower_bitmask(n): bitmask |= 1 << i for i in range(n)
RECURSIVE LowerBitmask(_)
LowerBitmask(n) == IF n <= 0 THEN 0 ELSE BitOr(LowerBitmask(n - 1), Pow2(n - 1))

\* cls._data_struct.size: BaseCommand's "<" unless the class sets its own
DataStructSize(cls) ==
  CASE cls = "AssignUnitObjective" -> 7
    [] cls = "AssignUnitObjectiveOnly" -> 3
    [] cls = "MarkUnit" -> 2
    [] cls = "UndoForUnit" -> 6
    [] cls \in {"SetBookmark", "JumpToBookmark", "CreateAlliance", "BreakAlliance",
                "ShareVision", "RevokeVision", "ShareControl", "RevokeControl"} -> 1
    [] cls = "DeleteNextCommand" -> 3
    [] OTHER -> 0

\* a jump that adds the target to the position the clock update left; C21
\* tells it from the code's
MoveTimePositionRestRelative(b, player, d) ==
  IF b.exc # NoExc THEN b
  ELSE IF ~CanUnpack(d, 4) THEN [b EXCEPT !.exc = StructError]
  ELSE IF player.tag # "Player"
  THEN [b EXCEPT !.exc = AttributeError,
                 !.msg.f = [target_time |-> LittleEndian(d, 0, 4)]]
  ELSE [b EXCEPT !.msg.f = [target_time |-> LittleEndian(d, 0, 4)],
                 !.heap[player.v].time_position = @ + LittleEndian(d, 0, 4)]

\* MoveTimePosition.__init__: struct.unpack("<I", data) takes the whole of
\* data; the assignment goes through the constructor's player argument.
MoveTimePositionRest(b, player, d) ==
  IF b.exc # NoExc THEN b
  ELSE IF ~CanUnpack(d, 4) THEN [b EXCEPT !.exc = StructError]
  ELSE IF player.tag # "Player"
  THEN [b EXCEPT !.exc = AttributeError,
                 !.msg.f = [target_time |-> LittleEndian(d, 0, 4)]]
  ELSE [b EXCEPT !.msg.f = [target_time |-> LittleEndian(d, 0, 4)],
                 !.heap[player.v].time_position = LittleEndian(d, 0, 4)]

MoveTimePositionInit(heap, timestamp, player, d) ==
  MoveTimePositionRest(
    BaseReplayMessageInit("MoveTimePosition", heap, timestamp, player), player, d)

\* objectives: for each objective number, its candidate labels with the kind
\* of parameter each takes
objectives ==
  (0 :> <<<<"Defend", "NO_PARAMETER">>, <<"Idle", "NO_PARAMETER">>>>)
  @@ (1 :> <<<<"Move", "POSITION">>, <<"display waypoint", "POSITION">>, <<"New (Down)", "NO_PARAMETER">>, <<"Attack Unit", "UNIT">>, <<"Processing",
       "NO_PARAMETER">>, <<"Build MFB", "NO_PARAMETER">>, <<"Build Tornade",
       "NO_PARAMETER">>>>)
  @@ (2 :> <<<<"Attack", "POSITION_OR_UNIT">>, <<"New (Up)", "NO_PARAMETER">>,
       <<"Process Resource", "UNIT">>, <<"Process Resources", "UNIT">>, <<"Build Frigate", "NO_PARAMETER">>, <<"Create Marines", "NO_PARAMETER">>, <<"Build Mech", "NO_PARAMETER">>>>)
  @@ (3 :> <<<<"Patrol", "POSITION_OR_UNIT">>, <<"New (Down Left)",
       "NO_PARAMETER">>, <<"Make Octo", "NO_PARAMETER">>, <<"Build MFB",
       "NO_PARAMETER">>, <<"Create SOPs", "NO_PARAMETER">>, <<"Build ATHC",
       "NO_PARAMETER">>>>)
  @@ (4 :> <<<<"Attack Unit", "UNIT">>, <<"New (Down Right)", "NO_PARAMETER">>,
       <<"Make Sepi", "NO_PARAMETER">>, <<"Turn AutoCommand ON",
       "NO_PARAMETER">>, <<"Turn Auto Hierarchy ON", "NO_PARAMETER">>, <<"Build Blackbird", "NO_PARAMETER">>, <<"Build Lancer", "NO_PARAMETER">>>>)
  @@ (5 :> <<<<"New (Up Left)", "NO_PARAMETER">>, <<"Make Pharo",
       "NO_PARAMETER">>, <<"Turn Smart Idle ON", "NO_PARAMETER">>, <<"Build Heavy Cruiser", "NO_PARAMETER">>, <<"Build Tornade", "NO_PARAMETER">>>>)
  @@ (6 :> <<<<"New (Up Right)", "NO_PARAMETER">>, <<"Turn AutoCommand OFF",
       "NO_PARAMETER">>, <<"Turn Auto Hierarchy OFF", "NO_PARAMETER">>, <<"Build MAR Tank", "NO_PARAMETER">>, <<"Build Tank", "NO_PARAMETER">>>>)
  @@ (7 :> <<<<"Turn Smart Idle OFF", "NO_PARAMETER">>, <<"Build Heavy Cruiser", "NO_PARAMETER">>, <<"Build Tank", "NO_PARAMETER">>>>)
  @@ (8 :> <<<<"Change Commander", "UNIT">>, <<"Relocate", "NO_PARAMETER">>,
       <<"Attack", "UNIT">>, <<"Build Blackbird", "NO_PARAMETER">>, <<"Attack Unit", "UNIT">>, <<"displaying waypoint", "POSITION">>>>)
  @@ (9 :> <<<<"Remove from Hierarchy", "NO_PARAMETER">>, <<"Remove from Heirarchy", "NO_PARAMETER">>, <<"Relocate", "POSITION">>, <<"Move",
       "POSITION">>, <<"Clear Commander", "NO_PARAMETER">>>>)
  @@ (10 :> <<<<"Priority", "NO_PARAMETER">>, <<"Lead group",
       "NO_PARAMETER">>>>)
  @@ (11 :> <<<<"Build", "NO_PARAMETER">>, <<"Load Unit", "UNIT">>, <<"Nanite Infect", "NO_PARAMETER">>, <<"Place buildings", "NO_PARAMETER">>,
       <<"Merge", "UNIT">>, <<"Stop and re-enable", "NO_PARAMETER">>,
       <<"Chrono-Freeze", "NO_PARAMETER">>, <<"Defend/Repel", "NO_PARAMETER">>,
       <<"Build Foundation", "NO_PARAMETER">>, <<"Build Resource Processor",
       "POSITION">>, <<"Build Comm Hub", "POSITION">>, <<"Drop Nuke Now ",
       "NO_PARAMETER">>, <<"Resource Processor", "POSITION">>, <<"Comm Jam",
       "NO_PARAMETER">>, <<"Morph: Reaph", "POSITION">>, <<"Morph: Arcticus",
       "POSITION">>>>)
  @@ (12 :> <<<<"Clear Nanite", "UNIT">>, <<"Release Cargo", "POSITION">>,
       <<"Build Foundation", "NO_PARAMETER">>, <<"Upgrade Tank",
       "NO_PARAMETER">>, <<"Activate", "POSITION">>, <<"Merge", "NO_PARAMETER">>,
       <<"Upgrade", "NO_PARAMETER">>, <<"Temporal Soliton Shield",
       "NO_PARAMETER">>, <<"Stop", "POSITION">>, <<"Nuke a Location",
       "POSITION">>, <<"Moving to Morph ", "NO_PARAMETER">>>>)
  @@ (13 :> <<<<"Ride in a Tank", "NO_PARAMETER">>, <<"Cancel Progen for All",
       "NO_PARAMETER">>, <<"Cancel Build", "NO_PARAMETER">>, <<"Merge",
       "NO_PARAMETER">>, <<"QPlasma -> LCrystal", "NO_PARAMETER">>, <<"Clear Nanite", "NO_PARAMETER">>, <<"Morph to Pharo", "NO_PARAMETER">>,
       <<"displaying waypoint", "POSITION">>>>)
  @@ (14 :> <<<<"Cancel Build", "NO_PARAMETER">>, <<"Cancel Factory/Progeneration", "NO_PARAMETER">>, <<"Fix Troops", "UNIT">>,
       <<"Cancel Make Buildings", "NO_PARAMETER">>, <<"Clear Nanite", "UNIT">>,
       <<"Fix Unit", "UNIT">>, <<"Cancel Piloting", "NO_PARAMETER">>, <<"Reload Nuke", "NO_PARAMETER">>, <<"Cancel Progeneration", "NO_PARAMETER">>>>)
  @@ (15 :> <<<<"Recover", "UNIT">>, <<"Recover Status", "UNIT">>, <<"Break TSS", "UNIT">>>>)
  @@ (16 :> <<<<"Stop", "NO_PARAMETER">>, <<"Chronobomb", "POSITION">>,
       <<"Temporal Soliton Shield", "UNIT">>>>)
  @@ (17 :> <<<<"Release Unit", "NO_PARAMETER">>, <<"Cloaking On",
       "NO_PARAMETER">>, <<"Release Troop", "NO_PARAMETER">>, <<"ChronoBomb",
       "NO_PARAMETER">>, <<"Break TSS", "UNIT">>, <<"Morph: Dome",
       "NO_PARAMETER">>>>)
  @@ (18 :> <<<<"", "NO_PARAMETER">>, <<"Congregate units at",
       "POSITION_OR_UNIT">>, <<"Plasma Bomb", "NO_PARAMETER">>, <<"Congregate Units At", "POSITION_OR_UNIT">>, <<"Congregate Troops At",
       "POSITION_OR_UNIT">>, <<"Morph: Dome", "POSITION">>, <<"Morph: Mound",
       "POSITION">>>>)
  @@ (19 :> <<<<"Clear Congregation Point", "NO_PARAMETER">>, <<"",
       "NO_PARAMETER">>, <<"Upgrade Skip-Teleport", "NO_PARAMETER">>, <<"Upgrade Tank", "NO_PARAMETER">>, <<"Chronobomb", "NO_PARAMETER">>, <<"Upgrade Beam", "NO_PARAMETER">>, <<"Repel", "NO_PARAMETER">>, <<"Upgrade",
       "NO_PARAMETER">>>>)
  @@ (20 :> <<<<"Rally on unit", "UNIT">>, <<"Uncloak", "NO_PARAMETER">>,
       <<"Skip Torpedo", "POSITION">>, <<"Nanite Infect", "UNIT">>, <<"Plasma Bomb", "POSITION">>, <<"Fire Charge Beam", "UNIT">>, <<"Repel",
       "NO_PARAMETER">>, <<"Chrono-Freeze ", "NO_PARAMETER">>, <<"Equip Nuke",
       "NO_PARAMETER">>, <<"Auto Slingshot", "POSITION">>, <<"Defend/Repel",
       "NO_PARAMETER">>, <<"Comm Jam", "NO_PARAMETER">>>>)
  @@ (21 :> <<<<"Teleport Self To", "POSITION">>, <<"Relink (to Arcticus)",
       "UNIT">>, <<"ChronoBomb", "POSITION">>, <<"Rally on unit", "UNIT">>,
       <<"Cancel Defend/Repel", "NO_PARAMETER">>>>)
  @@ (22 :> <<<<"Resource Processor", "POSITION">>, <<"Slingshot",
       "POSITION">>, <<"Skip Torpedo", "NO_PARAMETER">>, <<"Attack Dispatch",
       "POSITION_OR_UNIT">>, <<"Plasma Bomb", "NO_PARAMETER">>, <<"Equip Nuke",
       "NO_PARAMETER">>>>)
  @@ (23 :> <<<<"Importer", "POSITION">>, <<"Teleporter", "POSITION">>, <<"Move Dispatch", "POSITION">>, <<"ChronoBomb", "NO_PARAMETER">>, <<"",
       "NO_PARAMETER">>, <<"displaying waypoint", "POSITION">>>>)
  @@ (24 :> <<<<"Factory", "POSITION">>, <<"Defense Turret", "POSITION">>,
       <<"Stop Dispatch", "NO_PARAMETER">>, <<"Upgrade Adv Structures",
       "NO_PARAMETER">>, <<"Make Vehicles", "NO_PARAMETER">>, <<"Upgrade Machinery", "NO_PARAMETER">>, <<"Upgrade Autodefence", "NO_PARAMETER">>>>)
  @@ (25 :> <<<<"Armory", "POSITION">>, <<"Macrofab", "POSITION">>,
       <<"Chronoport Dispatch", "TIME">>, <<"", "NO_PARAMETER">>, <<"Make Vehicles", "NO_PARAMETER">>>>)
  @@ (26 :> <<<<"Comm Center", "POSITION">>, <<"Defense Turret",
       "NO_PARAMETER">>, <<"Make Resource Processor", "POSITION">>, <<"Upgrade Loligo Class", "NO_PARAMETER">>, <<"Upgrade Ground Units",
       "NO_PARAMETER">>, <<"Research Halcyon Class", "NO_PARAMETER">>>>)
  @@ (27 :> <<<<"Slingshot", "NO_PARAMETER">>, <<"Create Depot",
       "NO_PARAMETER">>, <<"Make Mound", "POSITION">>, <<"", "NO_PARAMETER">>>>)
  @@ (28 :> <<<<"Chronoporter", "POSITION">>, <<"Make Reaph", "POSITION">>,
       <<"Upgrade Specials", "NO_PARAMETER">>>>)
  @@ (29 :> <<<<"Teleporter", "NO_PARAMETER">>, <<"Create Annex",
       "NO_PARAMETER">>, <<"Make Arcticus", "POSITION">>, <<"",
       "NO_PARAMETER">>>>)
  @@ (30 :> <<<<"Chronoporter", "NO_PARAMETER">>, <<"Make Spyre", "POSITION">>,
       <<"Upgrade Chronoporting", "NO_PARAMETER">>, <<"Zayin Pulser",
       "NO_PARAMETER">>, <<"Upgrade Gate Tech", "NO_PARAMETER">>>>)
  @@ (31 :> <<<<"Carrier", "POSITION">>, <<"Make Dome", "POSITION">>, <<"",
       "NO_PARAMETER">>, <<"Teth Pulser", "NO_PARAMETER">>, <<"Garguntuan",
       "POSITION">>, <<"Spyre", "POSITION">>>>)
  @@ (32 :> <<<<"Carrier", "NO_PARAMETER">>, <<"Make Dome", "NO_PARAMETER">>,
       <<"Upgrade Weapons", "NO_PARAMETER">>, <<"Shin Pulser", "NO_PARAMETER">>,
       <<"Upgrade Aerospace", "NO_PARAMETER">>, <<"Upgrade Weaponry",
       "NO_PARAMETER">>, <<"Spyre", "NO_PARAMETER">>>>)
  @@ (33 :> <<<<"Make Spyre", "NO_PARAMETER">>, <<"", "NO_PARAMETER">>,
       <<"Zayin Tercher", "NO_PARAMETER">>>>)
  @@ (34 :> <<<<"Carry/Commander", "UNIT">>, <<"Create SlipGate",
       "NO_PARAMETER">>, <<"Chronoport Dispatch", "NO_PARAMETER">>, <<"Teth Tercher", "NO_PARAMETER">>>>)
  @@ (35 :> <<<<"Factory/Progeneration", "NO_PARAMETER">>, <<"Carrier",
       "NO_PARAMETER">>, <<"Create Bastion", "NO_PARAMETER">>, <<"Shin Tercher",
       "NO_PARAMETER">>>>)
  @@ (36 :> <<<<"Importer", "POSITION">>, <<"Create Incepter",
       "NO_PARAMETER">>, <<"Upgrade Chronoporting", "NO_PARAMETER">>, <<"Zayin Halcyon", "NO_PARAMETER">>, <<"Upgrade Gate Tech", "NO_PARAMETER">>>>)
  @@ (37 :> <<<<"Factory/Progeneration", "POSITION">>, <<"Armory",
       "POSITION">>, <<"Create Incepter", "NO_PARAMETER">>, <<"Upgrade Chronoporting", "NO_PARAMETER">>, <<"Teth Halcyon", "NO_PARAMETER">>>>)
  @@ (38 :> <<<<"Produce Octopod", "NO_PARAMETER">>, <<"Upgrade Weapons",
       "NO_PARAMETER">>, <<"Shin Halcyon", "NO_PARAMETER">>, <<"Upgrade Aerospace", "NO_PARAMETER">>, <<"Upgrade Weaponry", "NO_PARAMETER">>,
       <<"Produce Octo", "NO_PARAMETER">>>>)
  @@ (39 :> <<<<"Produce Sepipod", "NO_PARAMETER">>, <<"Create Incepter",
       "NO_PARAMETER">>, <<"Upgrade Weapons", "NO_PARAMETER">>, <<"",
       "NO_PARAMETER">>, <<"Upgrade Aerospace", "NO_PARAMETER">>, <<"Upgrade Weaponry", "NO_PARAMETER">>, <<"Pilot Vehicle", "NO_PARAMETER">>,
       <<"Produce Sepi", "NO_PARAMETER">>>>)
  @@ (40 :> <<<<"Produce Pharopod", "NO_PARAMETER">>, <<"Upgrade Adv Structures", "NO_PARAMETER">>, <<"Shin Pulser", "NO_PARAMETER">>, <<"Split Down", "NO_PARAMETER">>, <<"Upgrade Machinery", "NO_PARAMETER">>,
       <<"Upgrade Autodefense", "NO_PARAMETER">>, <<"Pilot Pulser",
       "NO_PARAMETER">>, <<"Produce Pharo", "NO_PARAMETER">>>>)
  @@ (41 :> <<<<"Produce Octoligo", "NO_PARAMETER">>, <<"Upgrade Specials",
       "NO_PARAMETER">>, <<"Teth Tercher", "NO_PARAMETER">>, <<"Equip Nuke",
       "NO_PARAMETER">>, <<"Pilot Tercher", "NO_PARAMETER">>, <<"Produce Octopod", "NO_PARAMETER">>>>)
  @@ (42 :> <<<<"Produce Sepiligo", "NO_PARAMETER">>, <<"Upgrade Loligo Class",
       "NO_PARAMETER">>, <<"Shin Tercher", "NO_PARAMETER">>, <<"Upgrade Ground Units", "NO_PARAMETER">>, <<"Research Halcyon Class", "NO_PARAMETER">>,
       <<"Pilot Halcyon", "NO_PARAMETER">>, <<"Produce Sepipod",
       "NO_PARAMETER">>>>)
  @@ (43 :> <<<<"Produce Pharoligo", "NO_PARAMETER">>, <<"Zayin Halcyon",
       "NO_PARAMETER">>, <<"Create Marines", "NO_PARAMETER">>, <<"Create Zayin Vir", "NO_PARAMETER">>, <<"Pilot Halcyon", "NO_PARAMETER">>, <<"Produce Pharopod", "NO_PARAMETER">>>>)
  @@ (44 :> <<<<"Octopod", "NO_PARAMETER">>, <<"Teth Halcyon",
       "NO_PARAMETER">>, <<"Create SOPs", "NO_PARAMETER">>, <<"Create Teth Vir",
       "NO_PARAMETER">>, <<"Octo", "NO_PARAMETER">>>>)
  @@ (45 :> <<<<"Chronoport", "NO_PARAMETER">>, <<"Sepipod", "NO_PARAMETER">>,
       <<"", "NO_PARAMETER">>, <<"Shin Halcyon", "NO_PARAMETER">>, <<"Create Shin Vir", "NO_PARAMETER">>, <<"Sepi", "NO_PARAMETER">>>>)
  @@ (46 :> <<<<"Chronoport", "NO_PARAMETER">>, <<"Pharopod", "NO_PARAMETER">>,
       <<"Chronoport ", "NO_PARAMETER">>, <<"Shin Halcyon", "NO_PARAMETER">>,
       <<"Create Zayin Vir", "NO_PARAMETER">>, <<"Pharo", "NO_PARAMETER">>>>)
  @@ (47 :> <<<<"Teleport", "POSITION">>, <<"Octoligo", "NO_PARAMETER">>,
       <<"Teleport Self To", "POSITION">>, <<"Create Teth Vir", "NO_PARAMETER">>,
       <<"Octopod", "NO_PARAMETER">>>>)
  @@ (48 :> <<<<"Chronoport", "TIME">>, <<"Sepiligo", "NO_PARAMETER">>,
       <<"Create Shin Vir", "NO_PARAMETER">>, <<"Sepipod", "NO_PARAMETER">>>>)
  @@ (49 :> <<<<"Pharoligo", "NO_PARAMETER">>, <<"Pharopod", "NO_PARAMETER">>,
       <<"Pharpod", "NO_PARAMETER">>>>)
  @@ (50 :> <<<<"Teleport", "NO_PARAMETER">>, <<"Octoligo", "NO_PARAMETER">>,
       <<"", "NO_PARAMETER">>, <<"Human", "NO_PARAMETER">>>>)
  @@ (51 :> <<<<"Sepiligo", "NO_PARAMETER">>, <<"Grekim", "NO_PARAMETER">>,
       <<"", "NO_PARAMETER">>>>)
  @@ (52 :> <<<<"Pharoligo", "NO_PARAMETER">>, <<"Vecgir", "NO_PARAMETER">>,
       <<"Upgrade Power", "NO_PARAMETER">>, <<"Octo Resource Processor",
       "POSITION">>>>)
  @@ (53 :> <<<<"Sepiligo", "NO_PARAMETER">>, <<"Random", "NO_PARAMETER">>,
       <<"Upgrade Power", "NO_PARAMETER">>>>)
  @@ (54 :> <<<<"Pharoligo", "NO_PARAMETER">>, <<"Upgrade Power",
       "NO_PARAMETER">>>>)
  @@ (55 :> <<<<"Sepipod", "NO_PARAMETER">>>>)
  @@ (56 :> <<<<"Pharopod", "NO_PARAMETER">>>>)
  @@ (57 :> <<<<"Create Slipgate", "NO_PARAMETER">>>>)
  @@ (58 :> <<<<"Create Bastion", "NO_PARAMETER">>>>)
  @@ (59 :> <<<<"Create ACC", "NO_PARAMETER">>>>)

\* _get_objective(number, parameter): the labels of the candidates without a
\* parameter when parameter is None, of those with one otherwise
GetObjectiveLabels(candidates, parameter) ==
  LET NoParameter(c) == c[2] = "NO_PARAMETER"
      WithParameter(c) == c[2] # "NO_PARAMETER"
      chosen == IF parameter = NoneV THEN SelectSeq(candidates, NoParameter)
                ELSE SelectSeq(candidates, WithParameter)
  IN [i \in 1 .. Len(chosen) |-> chosen[i][1]]

GetObjective(number, parameter) ==
  IF number \notin DOMAIN objectives
  THEN [exc |-> KeyError(number), labels |-> <<>>]
  ELSE [exc |-> NoExc, labels |-> GetObjectiveLabels(objectives[number], parameter)]

\* AssignUnitObjective.__init__: unpack_from("<HBI")
AssignUnitObjectiveInit(heap, timestamp, player, d) ==
  Then(BaseReplayMessageInit("AssignUnitObjective", heap, timestamp, player),
       CanUnpackFrom(d, 0, 7), StructError,
       IF CanUnpackFrom(d, 0, 7)
       THEN [unit |-> LittleEndian(d, 0, 2),
             objective |-> BitAnd(LittleEndian(d, 2, 1), LowerBitmask(6)),
             queued |-> BitAnd(LittleEndian(d, 2, 1), Pow2(7)) # 0,
             parameter |-> LittleEndian(d, 3, 4)]
       ELSE NoFields)

\* AssignUnitObjectiveOnly.__init__: unpack_from("<HB")
AssignUnitObjectiveOnlyInit(heap, timestamp, player, d) ==
  Then(BaseReplayMessageInit("AssignUnitObjectiveOnly", heap, timestamp, player),
       CanUnpackFrom(d, 0, 3), StructError,
       IF CanUnpackFrom(d, 0, 3)
       THEN [unit |-> LittleEndian(d, 0, 2),
             objective |-> BitAnd(LittleEndian(d, 2, 1), LowerBitmask(6)),
             queued |-> BitAnd(LittleEndian(d, 2, 1), Pow2(7)) # 0]
       ELSE NoFields)

\* MarkUnit.__init__: unpack("<H") takes the whole of data
MarkUnitInit(heap, timestamp, player, d) ==
  Then(BaseReplayMessageInit("MarkUnit", heap, timestamp, player),
       CanUnpack(d, 2), StructError,
       IF CanUnpack(d, 2) THEN [unit |-> LittleEndian(d, 0, 2)] ELSE NoFields)

\* UndoForUnit.__init__: unpack_from("<HI"), then reads self.player.time_position
UndoForUnitRest(b, d) ==
  IF b.exc # NoExc THEN b
  ELSE IF ~CanUnpackFrom(d, 0, 6) THEN [b EXCEPT !.exc = StructError]
  ELSE IF b.msg.player.tag # "Player" THEN [b EXCEPT !.exc = AttributeError]
  ELSE [b EXCEPT !.msg.f = [unit |-> LittleEndian(d, 0, 2),
                            end_time |-> LittleEndian(d, 2, 4),
                            start_time |-> b.heap[b.msg.player.v].time_position]]

UndoForUnitInit(heap, timestamp, player, d) ==
  UndoForUnitRest(BaseReplayMessageInit("UndoForUnit", heap, timestamp, player), d)

\* SetBookmark, JumpToBookmark, CreateAlliance, BreakAlliance, ShareVision,
\* RevokeVision, ShareControl, RevokeControl: unpack("<B") takes the whole of
\* data
OneByteCommandInit(cls, heap, timestamp, player, d) ==
  Then(BaseReplayMessageInit(cls, heap, timestamp, player),
       CanUnpack(d, 1), StructError,
       IF CanUnpack(d, 1) THEN [arg |-> LittleEndian(d, 0, 1)] ELSE NoFields)

\* an assignment that sets the factor of every Player; C20 tells it from the
\* code's
SetTimeSpeedFactorOfAll(b, factor) ==
  IF b.exc # NoExc THEN b
  ELSE IF b.msg.player.tag # "Player" THEN [b EXCEPT !.exc = AttributeError]
  ELSE [b EXCEPT !.heap = [i \in 1 .. Len(b.heap) |->
                             [b.heap[i] EXCEPT !.time_speed_factor = factor]]]

\* SwitchFastForward / SwitchSlowMotion / SwitchPause / SwitchNormalTime:
\* self.player._time_speed_factor = factor, after the base constructor
SetTimeSpeedFactor(b, factor) ==
  IF b.exc # NoExc THEN b
  ELSE IF b.msg.player.tag # "Player" THEN [b EXCEPT !.exc = AttributeError]
  ELSE [b EXCEPT !.heap[b.msg.player.v].time_speed_factor = factor]

SwitchInit(cls, factor, heap, timestamp, player, d) ==
  SetTimeSpeedFactor(BaseReplayMessageInit(cls, heap, timestamp, player), factor)

\* a fast-forward command that sets factor 1; C3 tells it from the code's
SwitchFastForwardInitNormal(heap, timestamp, player, d) ==
  SwitchInit("SwitchFastForward", <<1, 1>>, heap, timestamp, player, d)

SwitchFastForwardInit(heap, timestamp, player, d) ==
  SwitchInit("SwitchFastForward", <<2, 1>>, heap, timestamp, player, d)

SwitchSlowMotionInit(heap, timestamp, player, d) ==
  SwitchInit("SwitchSlowMotion", <<1, 2>>, heap, timestamp, player, d)

\* a pause command that sets factor 0.5; C4 tells it from the code's
SwitchPauseInitSlow(heap, timestamp, player, d) ==
  SwitchInit("SwitchPause", <<1, 2>>, heap, timestamp, player, d)

SwitchPauseInit(heap, timestamp, player, d) ==
  SwitchInit("SwitchPause", <<0, 1>>, heap, timestamp, player, d)

SwitchNormalTimeInit(heap, timestamp, player, d) ==
  SwitchInit("SwitchNormalTime", <<1, 1>>, heap, timestamp, player, d)

\* ReloadScripts.__init__
ReloadScriptsInit(heap, timestamp, player, d) ==
  BaseReplayMessageInit("ReloadScripts", heap, timestamp, player)

\* DeleteNextCommand.__init__: unpack("<HB") takes the whole of data
DeleteNextCommandInit(heap, timestamp, player, d) ==
  Then(BaseReplayMessageInit("DeleteNextCommand", heap, timestamp, player),
       CanUnpack(d, 3), StructError,
       IF CanUnpack(d, 3)
       THEN [unit |-> LittleEndian(d, 0, 2), direction |-> LittleEndian(d, 2, 1)]
       ELSE NoFields)

\* the dict of make_command: command number -> class ("None" for the entry
\* whose value is None); a number outside its domain is a KeyError
CommandTable ==
  (MOVE_TIME_POSITION :> "MoveTimePosition") @@
  (FOLLOW_TO_TIME :> "MoveTimePosition") @@
  (ASSIGN_UNIT_OBJECTIVE :> "AssignUnitObjective") @@
  (ASSIGN_UNIT_OBJECTIVE_ONLY :> "AssignUnitObjectiveOnly") @@
  (MARK_UNIT :> "MarkUnit") @@
  (DELETE_EVENTS :> "UndoForUnit") @@
  (SET_BOOKMARK :> "SetBookmark") @@
  (JUMP_TO_BOOKMARK :> "JumpToBookmark") @@
  (CREATE_ALLIANCE :> "CreateAlliance") @@
  (BREAK_ALLIANCE :> "BreakAlliance") @@
  (GIVE_COMMAND_ABILITY_TO_PLAYER :> "ShareControl") @@
  (REVOKE_COMMAND_ABILITY_FROM_PLAYER :> "RevokeControl") @@
  (FAST_TIME :> "SwitchFastForward") @@
  (SLOW_TIME :> "SwitchSlowMotion") @@
  (STOP_TIME :> "SwitchPause") @@
  (NORMAL_TIME :> "SwitchNormalTime") @@
  (DEBUG_RELOAD_SCRIPTS :> "ReloadScripts") @@
  (DELETE_NEXT_COMMAND_AND_JUMP_TO_TIME :> "None")

\* command(timestamp, message, player, data) for the class the dict gave
CommandInit(cls, heap, timestamp, player, d) ==
  CASE cls = "MoveTimePosition" -> MoveTimePositionInit(heap, timestamp, player, d)
    [] cls = "AssignUnitObjective" -> AssignUnitObjectiveInit(heap, timestamp, player, d)
    [] cls = "AssignUnitObjectiveOnly" ->
         AssignUnitObjectiveOnlyInit(heap, timestamp, player, d)
    [] cls = "MarkUnit" -> MarkUnitInit(heap, timestamp, player, d)
    [] cls = "UndoForUnit" -> UndoForUnitInit(heap, timestamp, player, d)
    [] cls \in {"SetBookmark", "JumpToBookmark", "CreateAlliance", "BreakAlliance",
                "ShareVision", "RevokeVision", "ShareControl", "RevokeControl"} ->
         OneByteCommandInit(cls, heap, timestamp, player, d)
    [] cls = "SwitchFastForward" -> SwitchFastForwardInit(heap, timestamp, player, d)
    [] cls = "SwitchSlowMotion" -> SwitchSlowMotionInit(heap, timestamp, player, d)
    [] cls = "SwitchPause" -> SwitchPauseInit(heap, timestamp, player, d)
    [] cls = "SwitchNormalTime" -> SwitchNormalTimeInit(heap, timestamp, player, d)
    [] cls = "ReloadScripts" -> ReloadScriptsInit(heap, timestamp, player, d)
    [] cls = "DeleteNextCommand" -> DeleteNextCommandInit(heap, timestamp, player, d)
    [] cls = "None" -> \* None(...) : 'NoneType' object is not callable
         Built(TypeError, heap, Msg("None", timestamp, UnsetV, NoUpd, NoFields))

\* What a dispatcher returns: the exception raised (NoExc if none), the heap,
\* the messages built, and whether the value is a list (make_command's) or a
\* single message.
Made(e, heap, msgs, is_list) ==
  [exc |-> e, heap |-> heap, msgs |-> msgs, is_list |-> is_list]

\* The loop of make_command with n records left; d is what is left of data.
\* CommandLoop reads the tag and looks the class up; CommandStep takes the
\* constructor's outcome b, appends the command and drops the class's
\* _data_struct.size bytes.
RECURSIVE CommandLoop(_, _, _, _, _, _)
RECURSIVE CommandStep(_, _, _, _, _, _, _)
\* a step that hands the next record a timestamp one tick later; C25 tells
\* it from the code's
CommandStepTicking(b, cls, n, timestamp, player, d1, results) ==
  IF b.exc # NoExc THEN Made(b.exc, b.heap, results, TRUE)
  ELSE CommandLoop(n - 1, b.heap, timestamp + 1, player,
                   PySliceFrom(d1, DataStructSize(cls)), Append(results, b.msg))

CommandStep(b, cls, n, timestamp, player, d1, results) ==
  IF b.exc # NoExc THEN Made(b.exc, b.heap, results, TRUE)
  ELSE CommandLoop(n - 1, b.heap, timestamp, player,
                   PySliceFrom(d1, DataStructSize(cls)), Append(results, b.msg))

CommandLoop(n, heap, timestamp, player, d, results) ==
  IF n = 0 THEN Made(NoExc, heap, results, TRUE)
  ELSE IF ~CanUnpackFrom(d, 0, 1) THEN Made(StructError, heap, results, TRUE)
  ELSE IF LittleEndian(d, 0, 1) \notin DOMAIN CommandTable
  THEN Made(KeyError(LittleEndian(d, 0, 1)), heap, results, TRUE)
  ELSE CommandStep(CommandInit(CommandTable[LittleEndian(d, 0, 1)], heap, timestamp,
                               player, PySliceFrom(d, 1)),
                   CommandTable[LittleEndian(d, 0, 1)], n, timestamp, player,
                   PySliceFrom(d, 1), results)

\* make_command(timestamp, message, player, data)
MakeCommand(heap, timestamp, player, d) ==
  IF ~CanUnpackFrom(d, 0, 1) THEN Made(StructError, heap, <<>>, TRUE)
  ELSE CommandLoop(LittleEndian(d, 0, 1), heap, timestamp, player,
                   PySliceFrom(d, 1), <<>>)

---------------------------------------------------------------------------
(* Dispatch *)

Single(b) == Made(b.exc, b.heap, <<b.msg>>, FALSE)

\* the dict of make_message: content type -> constructor
MessageContentTable ==
  {CHRONAL_COMMANDS, SEND_TEXT, BROADCAST_TEXT, UNPAUSE_ENGINE, PAUSE_ENGINE,
   SAVE_GAME, SURRENDER, GLOBAL_TIME_RATE_CHANGE_REQUEST, SET_CONFIGURATION_PARAMETER}

\* make_message(timestamp, message, player, data)
MakeMessage(heap, timestamp, message, player, d) ==
  CASE message \notin MessageContentTable -> Made(KeyError(message), heap, <<>>, FALSE)
    [] message = CHRONAL_COMMANDS -> MakeCommand(heap, timestamp, player, d)
    [] message = SEND_TEXT -> Single(PrivateChatMessageInit(heap, timestamp, player, d))
    [] message = BROADCAST_TEXT -> Single(PublicChatMessageInit(heap, timestamp, player, d))
    [] message = UNPAUSE_ENGINE ->
         Single(BaseReplayMessageInit("UnpauseEngine", heap, timestamp, player))
    [] message = PAUSE_ENGINE ->
         Single(BaseReplayMessageInit("PauseEngine", heap, timestamp, player))
    [] message = SAVE_GAME ->
         Single(BaseReplayMessageInit("SaveGame", heap, timestamp, player))
    [] message = SURRENDER ->
         Single(BaseReplayMessageInit("PlayerSurrender", heap, timestamp, player))
    [] message = GLOBAL_TIME_RATE_CHANGE_REQUEST ->
         Single(GlobalTimeRateChangeInit(heap, timestamp, player, d))
    [] message = SET_CONFIGURATION_PARAMETER ->
         Single(SetConfigurationParameterInit(heap, timestamp, player, d))

\* make_replay_message(timestamp, message_type, message, player, data)
MakeReplayMessage(heap, timestamp, message_type, message, player, d) ==
  CASE message_type = NO_MESSAGE -> Single(NoOpMessageInit(heap, timestamp, player, d))
    [] message_type = MESSAGE -> MakeMessage(heap, timestamp, message, player, d)
    [] message_type = NEW_CLIENT -> Single(NewClientMessageInit(heap, timestamp, player, d))
    [] message_type = NEW_BANNED_CLIENT ->
         Single(NewBannedClientMessageInit(heap, timestamp, player, d))
    [] message_type = DISCONNECTED ->
         Single(BaseReplayMessageInit("DisconnectedMessage", heap, timestamp, player))
    [] message_type = ERROR ->
         Single(BaseReplayMessageInit("ErrorMessage", heap, timestamp, player))
    [] OTHER -> Made(KeyError(message_type), heap, <<>>, FALSE)

---------------------------------------------------------------------------
(* Replay *)

\* the 5-byte signature b"CRRP\x00"
Magic == <<67, 82, 82, 80, 0>>

NoReplay ==
  [version |-> <<>>, map_path |-> <<>>, random_seed |-> 0, player_seats |-> <<>>,
   base_offset |-> 0]

\* Replay.__init__(data): the exception raised (NoExc if none) and the fields
\* set before it; `step` counts the statements that completed (1: header
\* unpacked, 2: magic asserted, 3: map path read, 4: seed and seat mask read).
ReplayInitRest(d, m) ==
  IF m.exc # NoExc
  THEN [exc |-> m.exc, step |-> 2, self |-> [NoReplay EXCEPT !.version = PySlice(d, 5, 9)]]
  ELSE IF ~CanUnpackFrom(d, m.offset, 6)
  THEN [exc |-> StructError, step |-> 3,
        self |-> [NoReplay EXCEPT !.version = PySlice(d, 5, 9), !.map_path = m.field]]
  ELSE [exc |-> NoExc, step |-> 4,
        self |-> [version |-> PySlice(d, 5, 9), map_path |-> m.field,
                  random_seed |-> LittleEndian(d, m.offset, 4),
                  player_seats |-> UnpackBitmask(LittleEndian(d, m.offset + 4, 2), 16),
                  base_offset |-> m.offset + 6]]

ReplayInit(d) ==
  IF ~CanUnpackFrom(d, 0, 9) THEN [exc |-> StructError, step |-> 0, self |-> NoReplay]
  ELSE IF PySlice(d, 0, 5) # Magic
  THEN [exc |-> AssertionError, step |-> 1, self |-> NoReplay]
  ELSE ReplayInitRest(d, ReadString("H", d, 9))

\* a pass that leaves the 4 bytes of the length prefix out of the cursor; C24
\* tells it from the code's
RawMessagesYieldUncountedPrefix(d, off, p) ==
  IF p.exc # NoExc
  THEN [exc |-> p.exc, stop |-> FALSE, offset |-> off + 7, env |-> <<>>]
  ELSE [exc |-> NoExc, stop |-> FALSE, offset |-> p.offset - 4,
        env |-> [timestamp |-> LittleEndian(d, off, 4),
                 msg_type |-> LittleEndian(d, off + 4, 1),
                 message |-> LittleEndian(d, off + 5, 1),
                 seat |-> LittleEndian(d, off + 6, 1),
                 params |-> p.field,
                 at |-> off]]

\* One pass of the loop of raw_messages at cursor `off`: StopIteration when the
\* loop condition fails, struct.error from either read, or the envelope and
\* the next cursor.
RawMessagesYield(d, off, p) ==
  IF p.exc # NoExc
  THEN [exc |-> p.exc, stop |-> FALSE, offset |-> off + 7, env |-> <<>>]
  ELSE [exc |-> NoExc, stop |-> FALSE, offset |-> p.offset,
        env |-> [timestamp |-> LittleEndian(d, off, 4),
                 msg_type |-> LittleEndian(d, off + 4, 1),
                 message |-> LittleEndian(d, off + 5, 1),
                 seat |-> LittleEndian(d, off + 6, 1),
                 params |-> p.field,
                 at |-> off]]

RawMessagesNext(d, off) ==
  IF ~(off < Len(d))
  THEN [exc |-> NoExc, stop |-> TRUE, offset |-> off, env |-> <<>>]
  ELSE IF ~CanUnpackFrom(d, off, 7)
  THEN [exc |-> StructError, stop |-> FALSE, offset |-> off, env |-> <<>>]
  ELSE RawMessagesYield(d, off, ReadLengthPrefixedField("I", d, off + 7))

\* player_seat_map.get(seat, seat)
MapGet(map, seat) == IF seat \in DOMAIN map THEN RefV(map[seat]) ELSE IntV(seat)

\* player_seat_map[seat] = player
MapSet(map, seat, ref) ==
  [s \in (DOMAIN map) \cup {seat} |-> IF s = seat THEN ref ELSE map[s]]

\* a deletion that clears the map; C26 tells it from the code's
MapDelAll(map, seat) == [s \in {} |-> 0]

\* del player_seat_map[seat]
MapDel(map, seat) == [s \in (DOMAIN map) \ {seat} |-> map[s]]

EmptyMap == [s \in {} |-> 0]

\* The body of the loop of messages() for one envelope: the exception raised
\* (by the constructor, re-raised after the diagnostics, or by the del), the
\* heap, the map, and the messages yielded.
\* isinstance(msg, cls) for the value r.msgs a dispatcher returned
IsInstance(r, cls) == ~r.is_list /\ r.msgs[1].cls = cls

\* a loop body that drops an envelope whose constructor raised and goes on;
\* C13 tells it from the code's
MessagesBodyRestSkipping(map, seat, r) ==
  IF r.exc # NoExc THEN [exc |-> NoExc, heap |-> r.heap, map |-> map, yielded |-> <<>>]
  ELSE [exc |-> NoExc, heap |-> r.heap, map |-> map, yielded |-> r.msgs]

\* a loop body that also stores the Player of a NewBannedClientMessage under
\* the seat; C23 tells it from the code's
MessagesBodyRestMappingBanned(map, seat, r) ==
  IF r.exc # NoExc THEN [exc |-> r.exc, heap |-> r.heap, map |-> map, yielded |-> <<>>]
  ELSE IF IsInstance(r, "NewClientMessage") \/ IsInstance(r, "NewBannedClientMessage")
  THEN [exc |-> NoExc, heap |-> r.heap,
        map |-> MapSet(map, seat, r.msgs[1].player.v), yielded |-> r.msgs]
  ELSE IF IsInstance(r, "DisconnectedMessage") /\ seat \in DOMAIN map
  THEN [exc |-> NoExc, heap |-> r.heap, map |-> MapDel(map, seat), yielded |-> r.msgs]
  ELSE IF IsInstance(r, "DisconnectedMessage")
  THEN [exc |-> KeyError(seat), heap |-> r.heap, map |-> map, yielded |-> <<>>]
  ELSE [exc |-> NoExc, heap |-> r.heap, map |-> map, yielded |-> r.msgs]

\* the loop body after make_replay_message returned or raised r
MessagesBodyRest(map, seat, r) ==
  IF r.exc # NoExc THEN [exc |-> r.exc, heap |-> r.heap, map |-> map, yielded |-> <<>>]
  ELSE IF IsInstance(r, "NewClientMessage")
  THEN [exc |-> NoExc, heap |-> r.heap,
        map |-> MapSet(map, seat, r.msgs[1].player.v), yielded |-> r.msgs]
  ELSE IF IsInstance(r, "DisconnectedMessage")
  THEN IF seat \in DOMAIN map
       THEN [exc |-> NoExc, heap |-> r.heap, map |-> MapDel(map, seat),
             yielded |-> r.msgs]
       ELSE [exc |-> KeyError(seat), heap |-> r.heap, map |-> map, yielded |-> <<>>]
  ELSE [exc |-> NoExc, heap |-> r.heap, map |-> map, yielded |-> r.msgs]

MessagesBody(heap, map, env) ==
  MessagesBodyRest(map, env.seat,
                   MakeReplayMessage(heap, env.timestamp, env.msg_type, env.message,
                                     MapGet(map, env.seat), env.params))

---------------------------------------------------------------------------
(* Input buffers.  The encoders write the file layout the readers above     *)
(* take apart; the buffer families below are the inputs the checks range    *)
(* over.                                                                    *)

\* `size` little-endian bytes of n
RECURSIVE Le(_, _)
Le(n, size) == IF size = 0 THEN <<>> ELSE <<n % 256>> \o Le(n \div 256, size - 1)

\* header: "<5s4B", u16-prefixed map path, "<IH"
EncodeHeader(magic, version, map_path, seed, seat_mask) ==
  magic \o version \o Le(Len(map_path), 2) \o map_path \o Le(seed, 4) \o Le(seat_mask, 2)

\* record: "<I3B", u32-prefixed parameter block
EncodeEnvelope(timestamp, msg_type, message, seat, params) ==
  Le(timestamp, 4) \o <<msg_type, message, seat>> \o Le(Len(params), 4) \o params

\* command batch: count byte, then each record's tag and payload
RECURSIVE Concat(_)
Concat(ss) == IF ss = <<>> THEN <<>> ELSE Head(ss) \o Concat(Tail(ss))

EncodeBatch(records) == <<Len(records)>> \o Concat(records)

Alice == <<65, 108, 105, 99, 101>>
Bob == <<66, 111, 98>>
Gg == <<103, 103>>

GoodHeader == EncodeHeader(Magic, <<1, 0, 0, 0>>, <<109>>, 7, 3)

\* all sequences of at most n elements of A
RECURSIVE SeqsUpTo(_, _)
SeqsUpTo(A, n) ==
  IF n = 0 THEN {<<>>}
  ELSE LET shorter == SeqsUpTo(A, n - 1)
       IN shorter \cup {Append(q, a) : q \in {x \in shorter : Len(x) = n - 1}, a \in A}

\* all prefixes of d of at least n bytes
Prefixes(d, n) == {SubSeq(d, 1, k) : k \in n .. Len(d)}


\* bounds of the buffer families
MaxRawEnvelopes == 2
MaxClockEnvelopes == 2
MaxNoneEnvelopes == 2
MaxSessionEnvelopes == 4
MaxBatch == 2
MaxCommandTag == 21
MaxNetworkEnvelopes == 3
MaxSpeedEnvelopes == 2

\* an envelope before encoding
E(timestamp, msg_type, message, seat, params) ==
  [timestamp |-> timestamp, msg_type |-> msg_type, message |-> message, seat |-> seat,
   params |-> params]

Encode(e) == EncodeEnvelope(e.timestamp, e.msg_type, e.message, e.seat, e.params)

\* the envelopes es one after the other
RECURSIVE EncodeAll(_)
EncodeAll(es) == IF es = <<>> THEN <<>> ELSE Encode(Head(es)) \o EncodeAll(Tail(es))

\* the envelopes es with the k-th stamped tick * k
Stamped(es, tick) == [k \in 1 .. Len(es) |-> [es[k] EXCEPT !.timestamp = tick * k]]

\* the payload the variant table gives each command tag
CommandPayload(tag) ==
  CASE tag \in {MOVE_TIME_POSITION, FOLLOW_TO_TIME} -> <<5, 0, 0, 0>>
    [] tag = ASSIGN_UNIT_OBJECTIVE -> <<9, 0, 133, 1, 0, 0, 0>>
    [] tag = ASSIGN_UNIT_OBJECTIVE_ONLY -> <<9, 0, 5>>
    [] tag = MARK_UNIT -> <<9, 0>>
    [] tag = DELETE_EVENTS -> <<9, 0, 8, 0, 0, 0>>
    [] tag \in SET_BOOKMARK .. REVOKE_COMMAND_ABILITY_FROM_PLAYER -> <<1>>
    [] tag = DELETE_NEXT_COMMAND_AND_JUMP_TO_TIME -> <<9, 0, 1>>
    [] OTHER -> <<>>

CommandRecord(tag) == <<tag>> \o CommandPayload(tag)

\* a command-batch envelope holding the records of the tags
Batch(timestamp, seat, tags) ==
  E(timestamp, MESSAGE, CHRONAL_COMMANDS, seat,
    EncodeBatch([k \in 1 .. Len(tags) |-> CommandRecord(tags[k])]))

\* headers: signatures right and wrong, map paths, seat masks, and every
\* prefix of a header, with and without a record after it
Magics ==
  {Magic, <<67, 82, 82, 80, 1>>, <<88, 82, 82, 80, 0>>, <<0, 0, 0, 0, 0>>,
   <<99, 114, 114, 112, 0>>}

SeatMasks == {0, 3, 32767, 32768, 32771, 65535}

HeaderBuffers ==
  {EncodeHeader(m, <<1, 0, 0, 0>>, mp, 7, sm) :
     m \in Magics, mp \in {<<>>, <<109>>, <<200>>}, sm \in SeatMasks}
  \cup UNION {Prefixes(EncodeHeader(m, <<1, 0, 0, 0>>, <<109>>, 7, 3)
                       \o Encode(E(2, NO_MESSAGE, 0, 0, <<>>)), 0) : m \in Magics}

\* record streams cut at every byte
RawEnvelopes ==
  {E(2, NO_MESSAGE, 0, 0, <<>>), E(4, MESSAGE, BROADCAST_TEXT, NONE_PLAYER, Gg),
   E(6, NEW_CLIENT, 0, 0, Alice)}

RawBuffers ==
  UNION {Prefixes(GoodHeader \o EncodeAll(es), Len(GoodHeader)) :
           es \in SeqsUpTo(RawEnvelopes, MaxRawEnvelopes)}

\* one player's clock: a join, then speed commands, a jump and plain messages
\* at timestamps that rise, repeat and fall
ClockTimestamps == {0, 3, 36}

ClockEnvelopes ==
  {Batch(t, 0, <<tag>>) :
     t \in ClockTimestamps,
     tag \in {FAST_TIME, SLOW_TIME, STOP_TIME, NORMAL_TIME, MOVE_TIME_POSITION}}
  \cup {E(t, MESSAGE, PAUSE_ENGINE, 0, <<>>) : t \in ClockTimestamps}

ClockBuffers ==
  {GoodHeader \o Encode(E(t, NEW_CLIENT, 0, 0, Alice)) \o EncodeAll(es) :
     t \in {0, 36}, es \in SeqsUpTo(ClockEnvelopes, MaxClockEnvelopes)}

\* seat 255 under every message type and content type
NoneEnvelopes ==
  {E(0, ty, 0, NONE_PLAYER, Alice) :
     ty \in {NO_MESSAGE, NEW_CLIENT, NEW_BANNED_CLIENT, DISCONNECTED, ERROR, 6}}
  \cup {E(0, MESSAGE, c, NONE_PLAYER, <<>>) :
          c \in {UNPAUSE_ENGINE, PAUSE_ENGINE, SAVE_GAME, SURRENDER, 99}}
  \cup {E(0, MESSAGE, SEND_TEXT, NONE_PLAYER, <<0>> \o Gg),
        E(0, MESSAGE, BROADCAST_TEXT, NONE_PLAYER, Gg),
        E(0, MESSAGE, GLOBAL_TIME_RATE_CHANGE_REQUEST, NONE_PLAYER, <<0, 0, 128, 63>>),
        E(0, MESSAGE, SET_CONFIGURATION_PARAMETER, NONE_PLAYER, <<1, 107, 118>>)}
  \cup {Batch(0, NONE_PLAYER, tags) :
          tags \in {<<>>, <<MARK_UNIT>>, <<DEBUG_RELOAD_SCRIPTS>>, <<STOP_TIME>>,
                    <<MOVE_TIME_POSITION>>, <<DELETE_EVENTS>>}}

NoneBuffers ==
  {GoodHeader \o EncodeAll(Stamped(es, 6)) :
     es \in SeqsUpTo(NoneEnvelopes, MaxNoneEnvelopes)}

\* seat 0 joining, talking, commanding and leaving, with seat 1 joining and
\* talking in between
SessionEnvelopes ==
  {E(0, NEW_CLIENT, 0, 0, Alice), E(0, DISCONNECTED, 0, 0, <<>>),
   E(0, MESSAGE, BROADCAST_TEXT, 0, Gg), Batch(0, 0, <<FAST_TIME, MARK_UNIT>>),
   E(0, NEW_CLIENT, 0, 1, Bob), E(0, MESSAGE, BROADCAST_TEXT, 1, Gg)}

SessionBuffers ==
  {GoodHeader \o EncodeAll(Stamped(es, 4)) :
     es \in SeqsUpTo(SessionEnvelopes, MaxSessionEnvelopes)}

\* one joined player's command batches, over every command tag
CommandBuffers ==
  {GoodHeader \o Encode(E(0, NEW_CLIENT, 0, 0, Alice)) \o Encode(Batch(2, 0, tags)) :
     tags \in SeqsUpTo((0 .. MaxCommandTag) \cup {255}, MaxBatch)}

\* one joined player's objective commands, over every objective byte
ObjectiveBuffers ==
  {GoodHeader \o Encode(E(0, NEW_CLIENT, 0, 0, Alice))
     \o Encode(E(2, MESSAGE, CHRONAL_COMMANDS, 0,
                 EncodeBatch(<<<<tag, 9, 0, b>>
                               \o (IF tag = ASSIGN_UNIT_OBJECTIVE THEN <<1, 0, 0, 0>>
                                                                  ELSE <<>>)>>))) :
     tag \in {ASSIGN_UNIT_OBJECTIVE, ASSIGN_UNIT_OBJECTIVE_ONLY}, b \in 0 .. 255}

\* one seat's network events in any order: joins under two names, a banned
\* join, a disconnect, an error, a no-op and a chat line, 5 ticks apart
NetworkEnvelopes ==
  {E(0, NEW_CLIENT, 0, 0, Alice), E(0, NEW_CLIENT, 0, 0, Bob),
   E(0, NEW_BANNED_CLIENT, 0, 0, Bob), E(0, DISCONNECTED, 0, 0, <<>>),
   E(0, ERROR, 0, 0, <<>>), E(0, NO_MESSAGE, 0, 0, <<>>),
   E(0, MESSAGE, BROADCAST_TEXT, 0, Gg)}

NetworkBuffers ==
  {GoodHeader \o EncodeAll(Stamped(es, 5)) :
     es \in SeqsUpTo(NetworkEnvelopes, MaxNetworkEnvelopes)}

\* two joined seats: speed commands of either, and engine pause, unpause and
\* rate-change messages of seat 0, 4 ticks apart
SpeedEnvelopes ==
  {Batch(0, seat, <<tag>>) :
     seat \in {0, 1}, tag \in {FAST_TIME, SLOW_TIME, STOP_TIME, NORMAL_TIME}}
  \cup {E(0, MESSAGE, c, 0, <<>>) : c \in {PAUSE_ENGINE, UNPAUSE_ENGINE}}
  \cup {E(0, MESSAGE, GLOBAL_TIME_RATE_CHANGE_REQUEST, 0, <<0, 0, 128, 63>>)}

SpeedBuffers ==
  {GoodHeader
     \o EncodeAll(Stamped(<<E(0, NEW_CLIENT, 0, 0, Alice), E(0, NEW_CLIENT, 0, 1, Bob)>>
                            \o es, 4)) :
     es \in SeqsUpTo(SpeedEnvelopes, MaxSpeedEnvelopes)}

\* one joined seat: a speed command, a jump to each target under either tag,
\* and a chat line after it, at timestamps that rise and fall
MoveTargets == {0, 7, 65539, 16777223}

MoveBuffers ==
  {GoodHeader \o Encode(E(0, NEW_CLIENT, 0, 0, Alice))
     \o Encode(Batch(6, 0, <<speed>>))
     \o Encode(E(t, MESSAGE, CHRONAL_COMMANDS, 0, EncodeBatch(<<<<tag>> \o Le(target, 4)>>)))
     \o Encode(E(20, MESSAGE, BROADCAST_TEXT, 0, Gg)) :
     speed \in {FAST_TIME, SLOW_TIME, STOP_TIME},
     t \in {2, 16},
     tag \in {MOVE_TIME_POSITION, FOLLOW_TO_TIME},
     target \in MoveTargets}

Buffers ==
  HeaderBuffers \cup RawBuffers \cup ClockBuffers \cup NoneBuffers \cup SessionBuffers
  \cup CommandBuffers \cup ObjectiveBuffers \cup NetworkBuffers \cup SpeedBuffers \cup MoveBuffers

---------------------------------------------------------------------------
(* The run: Replay(data), then messages() to its end *)

NoProbe == [fn |-> "none"]

Init ==
  /\ data \in Buffers
  /\ pc = "start"
  /\ exc = NoExc
  /\ replay = NoReplay
  /\ offset = 0
  /\ player_seat_map = EmptyMap
  /\ players = <<>>
  /\ raw = <<>>
  /\ out = <<>>
  /\ probe = NoProbe

\* Replay(data).messages(): the constructor, and the generators' first lines
\* (offset = self._base_offset, player_seat_map = {})
Constructed(r) ==
  /\ replay' = r.self
  /\ exc' = r.exc
  /\ pc' = IF r.exc = NoExc THEN "body" ELSE "raised"
  /\ offset' = r.self.base_offset

NewReplay ==
  /\ pc = "start"
  /\ Constructed(ReplayInit(data))
  /\ player_seat_map' = EmptyMap
  /\ UNCHANGED <<data, players, raw, out, probe>>

\* One pass of the for loop of messages(): raw_messages is resumed, and on an
\* envelope the loop body runs up to and including its yields.
Yielded(n, b) ==
  /\ offset' = n.offset
  /\ raw' = Append(raw, n.env)
  /\ players' = b.heap
  /\ player_seat_map' = b.map
  /\ out' = out \o b.yielded
  /\ exc' = b.exc
  /\ pc' = IF b.exc = NoExc THEN "body" ELSE "raised"

Resumed(n) ==
  IF n.stop
  THEN /\ pc' = "done"
       /\ UNCHANGED <<exc, offset, player_seat_map, players, raw, out>>
  ELSE IF n.exc # NoExc
  THEN /\ pc' = "raised"
       /\ exc' = n.exc
       /\ offset' = n.offset
       /\ UNCHANGED <<player_seat_map, players, raw, out>>
  ELSE Yielded(n, MessagesBody(players, player_seat_map, n.env))

MessagesNext ==
  /\ pc = "body"
  /\ Resumed(RawMessagesNext(data, offset))
  /\ UNCHANGED <<data, replay, probe>>

Next == NewReplay \/ MessagesNext

Spec == Init /\ [][Next]_vars

\* the run on the record streams cut at every byte, under a caller that goes
\* on iterating: `for msg in replay.messages()` resumes the generator until
\* it ends or raises
InitStreams == Init /\ data \in RawBuffers

\* Weak fairness of both steps.  That of MessagesNext is written out as
\* []<>~ENABLED \/ []<>step, with its enabling condition pc = "body" in the
\* place of ENABLED: a pass of the loop is possible exactly then, and every
\* pass changes pc, offset or raw.
FairSpec ==
  /\ InitStreams
  /\ [][Next]_vars
  /\ WF_vars(NewReplay)
  /\ []<>(pc # "body") \/ []<><<MessagesNext>>_vars

---------------------------------------------------------------------------
(* Functions called directly *)

MaxFlagValue == 15
MaxFlagLength == 17
MaxTick == 4
MaxAdvances == 3

\* the main run's variables while a function is called directly
Idle ==
  /\ data = <<>>
  /\ pc = "probe"
  /\ exc = NoExc
  /\ replay = NoReplay
  /\ offset = 0
  /\ player_seat_map = EmptyMap
  /\ players = <<>>
  /\ raw = <<>>
  /\ out = <<>>

\* _unpack_bitmask(value, length) over values with low bits, high bits and
\* bit 15 set and clear
FlagValues ==
  (0 .. MaxFlagValue) \cup {v + 32768 : v \in 0 .. MaxFlagValue}
  \cup {16384, 32767, 49152, 65535}

InitFlags ==
  /\ Idle
  /\ probe \in {[fn |-> "_unpack_bitmask", value |-> v, length |-> n, returned |-> FALSE,
                 result |-> <<>>] : v \in FlagValues, n \in 0 .. MaxFlagLength}

CallUnpackBitmask ==
  /\ probe.fn = "_unpack_bitmask"
  /\ ~probe.returned
  /\ probe' = [probe EXCEPT !.returned = TRUE,
                            !.result = UnpackBitmask(probe.value, probe.length)]
  /\ UNCHANGED <<data, pc, exc, replay, offset, player_seat_map, players, raw, out>>

SpecFlags == InitFlags /\ [][CallUnpackBitmask]_vars

\* Four Player objects fed the same timestamps: p1 as constructed, p2, p3 and
\* p4 as SwitchFastForward, SwitchSlowMotion and SwitchPause leave a new
\* player (factor 2, 0.5 and 0, position 0, last 0).
ProbeTimestamps == (0 .. MaxTick) \cup {36}

FastPlayer ==
  SwitchFastForwardInit(<<Player(IntV(1), Bob)>>, 0, RefV(1), <<>>).heap[1]

SlowPlayer == SwitchSlowMotionInit(<<Player(IntV(2), Bob)>>, 0, RefV(1), <<>>).heap[1]

PausedPlayer == SwitchPauseInit(<<Player(IntV(3), Bob)>>, 0, RefV(1), <<>>).heap[1]

InitClock ==
  /\ Idle
  /\ probe = [fn |-> "_update_timestamp", p1 |-> Player(IntV(0), Alice),
              p2 |-> FastPlayer, p3 |-> SlowPlayer, p4 |-> PausedPlayer,
              timestamps |-> <<>>]

Advance ==
  /\ probe.fn = "_update_timestamp"
  /\ Len(probe.timestamps) < MaxAdvances
  /\ \E t \in ProbeTimestamps :
       probe' = [probe EXCEPT !.p1 = UpdateTimestamp(@, t),
                              !.p2 = UpdateTimestamp(@, t),
                              !.p3 = UpdateTimestamp(@, t),
                              !.p4 = UpdateTimestamp(@, t),
                              !.timestamps = Append(@, t)]
  /\ UNCHANGED <<data, pc, exc, replay, offset, player_seat_map, players, raw, out>>

SpecClock == InitClock /\ [][Advance]_vars

MaxObjective == 63
MaxParameter == 1

InitObjective ==
  /\ Idle
  /\ probe \in {[fn |-> "_get_objective", number |-> n, parameter |-> p,
                 returned |-> FALSE, exc |-> NoExc, result |-> <<>>] :
                  n \in 0 .. MaxObjective,
                  p \in {NoneV} \cup {IntV(x) : x \in 0 .. MaxParameter}}

CallGetObjective ==
  /\ probe.fn = "_get_objective"
  /\ ~probe.returned
  /\ probe' = [probe EXCEPT !.returned = TRUE,
                            !.exc = GetObjective(probe.number, probe.parameter).exc,
                            !.result = GetObjective(probe.number, probe.parameter).labels]
  /\ UNCHANGED <<data, pc, exc, replay, offset, player_seat_map, players, raw, out>>

SpecObjective == InitObjective /\ [][CallGetObjective]_vars

---------------------------------------------------------------------------
(* Two traversals of one container: r = Replay(data), then r.messages()     *)
(* called twice and the two generators resumed in any order.  probe.t[i]    *)
(* holds generator i's locals (its cursor, its player_seat_map) and what it *)
(* has yielded; the Player objects of both live in the one heap `players`.  *)
(* A generator is resumed for one pass of its for loop: between the yields  *)
(* of one pass (the commands of a batch) it changes nothing.                *)

MaxTraversalEnvelopes == 3

TraversalEnvelopes ==
  {E(0, NEW_CLIENT, 0, 0, Alice), E(0, DISCONNECTED, 0, 0, <<>>),
   E(0, MESSAGE, BROADCAST_TEXT, 0, Gg), Batch(0, 0, <<SLOW_TIME>>)}

TraversalBuffers ==
  {GoodHeader \o EncodeAll(Stamped(es, 3)) :
     es \in SeqsUpTo(TraversalEnvelopes, MaxTraversalEnvelopes)}

\* a generator of messages() before its first pass: offset = self._base_offset,
\* player_seat_map = {}
Traversal(r) ==
  [pc |-> "body", exc |-> NoExc, offset |-> r.base_offset, map |-> EmptyMap,
   raw |-> <<>>, out |-> <<>>, passes |-> 0]

\* the cursor generator t reads at: its own local; C14 tells it from the
\* code's when it is the first generator's
TraversalOffsetOfFirst(t) == probe.t[1].offset

TraversalOffset(t) == t.offset

\* one pass of generator t over the heap: the generator afterwards, and the heap
TraversalYielded(t, heap, n, b) ==
  [t |-> [pc |-> IF b.exc = NoExc THEN "body" ELSE "raised",
          exc |-> b.exc, offset |-> n.offset, map |-> b.map,
          raw |-> Append(t.raw, n.env), out |-> t.out \o b.yielded,
          passes |-> t.passes + 1],
   heap |-> b.heap]

TraversalResumed(t, heap, n) ==
  IF n.stop THEN [t |-> [t EXCEPT !.pc = "done", !.passes = @ + 1], heap |-> heap]
  ELSE IF n.exc # NoExc
  THEN [t |-> [t EXCEPT !.pc = "raised", !.exc = n.exc, !.offset = n.offset,
                        !.passes = @ + 1],
        heap |-> heap]
  ELSE TraversalYielded(t, heap, n, MessagesBody(heap, t.map, n.env))

TraversalNext(t, heap) ==
  TraversalResumed(t, heap, RawMessagesNext(data, TraversalOffset(t)))

InitTraversals ==
  /\ data \in TraversalBuffers
  /\ pc = "probe"
  /\ exc = NoExc
  /\ replay = ReplayInit(data).self
  /\ offset = 0
  /\ player_seat_map = EmptyMap
  /\ players = <<>>
  /\ raw = <<>>
  /\ out = <<>>
  /\ probe = [fn |-> "messages",
              t |-> <<Traversal(ReplayInit(data).self), Traversal(ReplayInit(data).self)>>]

Traversed(i, r) ==
  /\ probe' = [probe EXCEPT !.t[i] = r.t]
  /\ players' = r.heap

Traverse ==
  /\ probe.fn = "messages"
  /\ \E i \in 1 .. 2 :
       /\ probe.t[i].pc = "body"
       /\ Traversed(i, TraversalNext(probe.t[i], players))
  /\ UNCHANGED <<data, pc, exc, replay, offset, player_seat_map, raw, out>>

SpecTraversals == InitTraversals /\ [][Traverse]_vars

---------------------------------------------------------------------------
(* Properties *)

Abs(x) == IF x < 0 THEN -x ELSE x

\* a/b rounded toward zero (b > 0): the q of a's sign with |q|*b <= |a| < (|q|+1)*b
TowardZero(a, b) ==
  CHOOSE q \in -Abs(a) .. Abs(a) :
    /\ q * a >= 0
    /\ Abs(q) * b <= Abs(a)
    /\ Abs(a) < (Abs(q) + 1) * b

\* a/b rounded down (b > 0): the q with q*b <= a < (q+1)*b
Floor(a, b) == CHOOSE q \in -Abs(a) - 1 .. Abs(a) : q * b <= a /\ a < (q + 1) * b

\* (timestamp - last) / 2 * factor as the fraction <<numerator, denominator>>
Elapsed(m) ==
  <<(m.timestamp - m.upd.last) * m.upd.factor[1], 2 * m.upd.factor[2]>>

\* the messages yielded so far that are attributed to a Player
Attributed == {k \in 1 .. Len(out) : out[k].player.tag = "Player"}

\* the messages yielded so far that are attributed to the Player players[i]
MessagesOf(i) == {k \in 1 .. Len(out) : out[k].player = RefV(i)}

Last(ks) == CHOOSE k \in ks : \A j \in ks : j <= k

\* the clock a message leaves its player with: the update's result, and for
\* MoveTimePosition the target
PositionAfter(m) ==
  IF m.cls = "MoveTimePosition" THEN m.f.target_time ELSE m.upd.new_position

\* the clock update of message k starts from what the player's previous
\* message left (from a new Player's 0, 0 if there is none)
StartsFromPrevious(k) ==
  IF \E j \in MessagesOf(out[k].player.v) : j < k
  THEN /\ out[k].upd.position =
            PositionAfter(out[Last({j \in MessagesOf(out[k].player.v) : j < k})])
       /\ out[k].upd.last = out[Last({j \in MessagesOf(out[k].player.v) : j < k})].timestamp
  ELSE out[k].upd.position = 0 /\ out[k].upd.last = 0

\* a player's fields are what its last message left
LeftByLastMessage(i) ==
  MessagesOf(i) # {} =>
    /\ players[i].last_timestamp = out[Last(MessagesOf(i))].timestamp
    /\ players[i].time_position = PositionAfter(out[Last(MessagesOf(i))])

\* C1, as claimed: every message attributed to a Player sets last_timestamp to
\* the message timestamp and increases time_position by exactly
\* floor((timestamp - last_timestamp) / 2 * time_speed_factor).
C1_AdvanceIsFloor ==
  \A k \in Attributed :
    /\ out[k].upd.called
    /\ out[k].upd.new_last = out[k].timestamp
    /\ out[k].upd.new_position =
         out[k].upd.position + Floor(Elapsed(out[k])[1], Elapsed(out[k])[2])

\* C1, amended: every message attributed to a Player makes one clock update,
\* starting from what the player's previous message left; the update sets
\* last_timestamp to the message timestamp and increases time_position by
\* (timestamp - last_timestamp) / 2 * time_speed_factor rounded toward zero;
\* and while no exception has been raised each player's fields are what its
\* last message left.
C1_AdvanceIsTruncation ==
  /\ \A k \in Attributed :
       /\ out[k].upd.called
       /\ StartsFromPrevious(k)
       /\ out[k].upd.new_last = out[k].timestamp
       /\ out[k].upd.new_position =
            out[k].upd.position + TowardZero(Elapsed(out[k])[1], Elapsed(out[k])[2])
  /\ pc # "raised" => \A i \in 1 .. Len(players) : LeftByLastMessage(i)

\* C1 witness: a message whose timestamp is an odd number of ticks before its
\* player's last one, decoded at speed factor 0.5.
C1_Witness ==
  \E k \in Attributed :
    /\ out[k].timestamp < out[k].upd.last
    /\ (out[k].upd.last - out[k].timestamp) % 2 = 1
    /\ out[k].upd.factor = <<1, 2>>
    /\ out[k].upd.new_position # out[k].upd.position

\* the sum over the timestamps ts, starting from last_timestamp `last`, of
\* (t - last) / 2 * f rounded toward zero
RECURSIVE Accumulated(_, _, _)
Accumulated(ts, last, f) ==
  IF ts = <<>> THEN 0
  ELSE TowardZero((Head(ts) - last) * f[1], 2 * f[2]) + Accumulated(Tail(ts), Head(ts), f)

LastOf(ts) == IF ts = <<>> THEN 0 ELSE ts[Len(ts)]

ClockFollows(p, f, ts) ==
  /\ p.time_speed_factor = f
  /\ p.time_position = Accumulated(ts, 0, f)
  /\ p.last_timestamp = LastOf(ts)

\* C2: _update_timestamp(timestamp) adds (timestamp - last_timestamp) / 2 *
\* time_speed_factor, truncated toward zero, to time_position and sets
\* last_timestamp to timestamp, at each of the factors 1, 2, 0.5 and 0; a new
\* player advanced to 0 and then to 36 is at position 18.
C2_AdvanceTruncatesTowardZero ==
  probe.fn = "_update_timestamp" =>
    /\ ClockFollows(probe.p1, <<1, 1>>, probe.timestamps)
    /\ ClockFollows(probe.p2, <<2, 1>>, probe.timestamps)
    /\ ClockFollows(probe.p3, <<1, 2>>, probe.timestamps)
    /\ ClockFollows(probe.p4, <<0, 1>>, probe.timestamps)
    /\ probe.timestamps = <<0, 36>> => probe.p1.time_position = 18

\* C2 witness: the new player after the timestamps 0 and 36.
C2_Witness ==
  /\ probe.fn = "_update_timestamp"
  /\ probe.timestamps = <<0, 36>>
  /\ probe.p1.time_position = 18
  /\ probe.p1.last_timestamp = 36

\* the number of odd steps of the timestamps ts, starting from `last`, in the
\* direction sign (1: forward, -1: backward)
RECURSIVE OddSteps(_, _, _)
OddSteps(ts, last, sign) ==
  IF ts = <<>> THEN 0
  ELSE (IF (Head(ts) - last) * sign > 0 /\ (Head(ts) - last) % 2 = 1 THEN 1 ELSE 0)
       + OddSteps(Tail(ts), Head(ts), sign)

\* C3, as claimed: over the same timestamps the player at factor 2 has
\* accumulated exactly twice the position of the player at factor 1.
C3_FastIsExactlyTwice ==
  probe.fn = "_update_timestamp" =>
    probe.p2.time_position = 2 * probe.p1.time_position

\* C3, amended: over the same timestamps the player at factor 2 has
\* accumulated twice the position of the player at factor 1, plus one for
\* each odd step forward and minus one for each odd step backward; exactly
\* twice when there is no odd step.
C3_FastIsTwiceUpToOddSteps ==
  probe.fn = "_update_timestamp" =>
    /\ probe.p1.time_speed_factor = <<1, 1>>
    /\ probe.p2.time_speed_factor = <<2, 1>>
    /\ probe.p2.time_position =
         2 * probe.p1.time_position + OddSteps(probe.timestamps, 0, 1)
         - OddSteps(probe.timestamps, 0, -1)
    /\ (OddSteps(probe.timestamps, 0, 1) = 0 /\ OddSteps(probe.timestamps, 0, -1) = 0)
         => probe.p2.time_position = 2 * probe.p1.time_position

\* C3 witness: timestamps with an odd step, after which the position at
\* factor 2 is not twice the position at factor 1.
C3_Witness ==
  /\ probe.fn = "_update_timestamp"
  /\ Len(probe.timestamps) >= 2
  /\ OddSteps(probe.timestamps, 0, 1) > 0
  /\ probe.p2.time_position # 2 * probe.p1.time_position

SpeedCommands ==
  {"SwitchFastForward", "SwitchSlowMotion", "SwitchPause", "SwitchNormalTime"}

\* the speed commands of message k's player decoded before message k
SpeedCommandsBefore(k) ==
  {j \in MessagesOf(out[k].player.v) : j < k /\ out[j].cls \in SpeedCommands}

\* message k's player is paused: its last speed command so far is SwitchPause
Paused(k) ==
  /\ SpeedCommandsBefore(k) # {}
  /\ out[Last(SpeedCommandsBefore(k))].cls = "SwitchPause"

\* C4: once SwitchPause was decoded for a player and until its next speed
\* command is, the clock update of every message attributed to the player is
\* made at factor 0 and leaves time_position as it was, while last_timestamp
\* becomes the message timestamp.
C4_PausedClockIsFrozen ==
  \A k \in Attributed :
    Paused(k) =>
      /\ out[k].upd.called
      /\ out[k].upd.factor = <<0, 1>>
      /\ out[k].upd.new_position = out[k].upd.position
      /\ out[k].upd.new_last = out[k].timestamp

\* C4 witness: a message of a paused player whose timestamp differs from the
\* player's last one.
C4_Witness ==
  \E k \in Attributed :
    /\ Paused(k)
    /\ out[k].timestamp # out[k].upd.last
    /\ out[k].upd.new_last = out[k].timestamp

\* C5, as claimed: decoding an envelope whose seat byte is 255, whatever its
\* message type and content type, creates no Player, leaves the seat map and
\* every Player as they were, and yields no message attributed to a Player.
C5_NoneSeatIsNoPlayer ==
  [][(/\ Len(raw') = Len(raw) + 1
      /\ raw'[Len(raw')].seat = NONE_PLAYER)
     => /\ players' = players
        /\ player_seat_map' = player_seat_map
        /\ \A k \in Len(out) + 1 .. Len(out') : out'[k].player.tag # "Player"]_vars

\* the length the u32 prefix of raw envelope j declares
DeclaredLength(j) == LittleEndian(data, raw[j].at + 7, 4)

\* C6, as claimed: every envelope read has a parameter block of the length
\* its prefix declares, and the iteration ends normally only at the end of
\* the buffer.
C6_TruncatedBlockRaises ==
  /\ \A j \in 1 .. Len(raw) : Len(raw[j].params) = DeclaredLength(j)
  /\ pc = "done" => offset = Len(data)

\* the command tags make_command has a class for
Decoded == (0 .. 9) \cup (12 .. 18)

\* raw envelope j is a command batch whose first record's tag has no class
FirstTagUndecoded(j) ==
  /\ raw[j].msg_type = MESSAGE
  /\ raw[j].message = CHRONAL_COMMANDS
  /\ Len(raw[j].params) >= 2
  /\ raw[j].params[1] >= 1
  /\ raw[j].params[2] \notin Decoded

\* C7, as claimed: a command batch whose first record's tag has no class is
\* the last envelope read, and decoding it raised the unknown-tag error
\* (KeyError) carrying the tag.
C7_UnknownTagCarriesByte ==
  \A j \in 1 .. Len(raw) :
    FirstTagUndecoded(j) =>
      /\ j = Len(raw)
      /\ pc = "raised"
      /\ exc = KeyError(raw[j].params[2])

\* C8, as claimed: the constructor succeeds only on a buffer that starts with
\* the signature, and on a buffer whose first 5 bytes are anything else it
\* raises the bad-magic error (AssertionError) with no field set and no
\* envelope read.
C8_BadMagicIsRejected ==
  pc # "start" =>
    /\ pc \in {"body", "done"} => PySlice(data, 0, 5) = Magic
    /\ (Len(data) >= 5 /\ PySlice(data, 0, 5) # Magic)
         => /\ pc = "raised"
            /\ exc = AssertionError
            /\ replay = NoReplay
            /\ raw = <<>>
            /\ out = <<>>

\* bit i of v
Bit(v, i) == (v \div (2 ^ i)) % 2 = 1

\* C9: _unpack_bitmask(v, n), n >= 1, returns n - 1 booleans, the i-th true
\* iff bit i of v is set (i in 0 .. n-2); for n = 16 it returns 15 booleans,
\* the same for v with and without bit 15.
C9_FlagsDropTopBit ==
  (probe.fn = "_unpack_bitmask" /\ probe.returned /\ probe.length >= 1) =>
    /\ Len(probe.result) = probe.length - 1
    /\ \A i \in 0 .. probe.length - 2 : probe.result[i + 1] = Bit(probe.value, i)
    /\ probe.length = 16 =>
         /\ Len(probe.result) = 15
         /\ \A i \in 0 .. 14 : probe.result[i + 1] = Bit(probe.value % 32768, i)

\* C9 witness: a 16-bit mask with bit 15 and bit 0 set, unpacked at length 16.
C9_Witness ==
  /\ probe.fn = "_unpack_bitmask"
  /\ probe.returned
  /\ probe.length = 16
  /\ probe.value >= 32768
  /\ Len(probe.result) = 15
  /\ probe.result[1]

\* the envelopes read so far are join(s), then messages from s, then possibly
\* disconnect(s) as the last one, s not 255, and nothing was raised
Session ==
  /\ pc # "raised"
  /\ raw # <<>>
  /\ raw[1].msg_type = NEW_CLIENT
  /\ raw[1].seat # NONE_PLAYER
  /\ \A j \in 2 .. Len(raw) :
       /\ raw[j].seat = raw[1].seat
       /\ \/ raw[j].msg_type = MESSAGE
          \/ raw[j].msg_type = DISCONNECTED /\ j = Len(raw)

IsBatch(e) == e.msg_type = MESSAGE /\ e.message = CHRONAL_COMMANDS

\* the timestamps of the messages expected of the envelopes es: one per
\* envelope, and one per record for a command batch
RECURSIVE ExpectedTimestamps(_)
ExpectedTimestamps(es) ==
  IF es = <<>> THEN <<>>
  ELSE [k \in 1 .. (IF IsBatch(Head(es)) THEN Head(es).params[1] ELSE 1) |->
          Head(es).timestamp]
       \o ExpectedTimestamps(Tail(es))

ObjectiveCommand ==
  /\ pc # "raised"
  /\ Len(raw) = 2
  /\ raw[1].msg_type = NEW_CLIENT
  /\ IsBatch(raw[2])
  /\ Len(raw[2].params) >= 5
  /\ raw[2].params[1] = 1
  /\ raw[2].params[2] \in {ASSIGN_UNIT_OBJECTIVE, ASSIGN_UNIT_OBJECTIVE_ONLY}

\* the objective byte of that command
ObjectiveByte == raw[2].params[5]

\* C11: an AssignUnitObjective or AssignUnitObjectiveOnly command with raw
\* objective byte b decodes to objective = b mod 64 and queued = (bit 7 of b
\* is set), so that bit 6 of b affects neither; 0x85 gives 5 and true.
C11_ObjectiveIsLowSixBits ==
  /\ \A k \in 1 .. Len(out) :
       out[k].cls \in {"AssignUnitObjective", "AssignUnitObjectiveOnly"}
         => out[k].f.objective \in 0 .. 63 /\ out[k].f.queued \in BOOLEAN
  /\ ObjectiveCommand =>
       /\ Len(out) = 2
       /\ out[2].cls = (IF raw[2].params[2] = ASSIGN_UNIT_OBJECTIVE
                        THEN "AssignUnitObjective" ELSE "AssignUnitObjectiveOnly")
       /\ out[2].f.objective = ObjectiveByte % 64
       /\ out[2].f.queued = Bit(ObjectiveByte, 7)
       /\ ObjectiveByte = 133 => out[2].f.objective = 5 /\ out[2].f.queued

\* C11 witness: an objective byte with bits 7, 6 and 0 set decoded to
\* objective 1, queued.
C11_Witness ==
  /\ ObjectiveCommand
  /\ ObjectiveByte = 193
  /\ Len(out) = 2
  /\ out[2].f.objective = 1
  /\ out[2].f.queued

\* C12, as claimed: _get_objective returns a list for every objective number,
\* with and without a parameter, and an empty one for a number that is not a
\* key of the objective table.
C12_UnknownObjectiveIsEmpty ==
  (probe.fn = "_get_objective" /\ probe.returned) =>
    /\ probe.exc = NoExc
    /\ probe.number \notin DOMAIN objectives => probe.result = <<>>

\* C13: an exception ends the traversal: the step that raises yields nothing
\* (so every message yielded comes from an earlier envelope) and no step
\* follows it; every other step of the loop reads the envelope at the cursor,
\* yields that envelope's messages (one, or one per record of a batch) and
\* leaves the cursor at the end of its declared parameter block; and the
\* traversal ends normally only with the cursor at or past the end.
C13_ErrorsAreFatal ==
  [][/\ pc # "raised"
     /\ pc' = "raised" => out' = out
     /\ pc' = "done" => out' = out /\ raw' = raw /\ offset >= Len(data)
     /\ (pc = "body" /\ pc' = "body") =>
          /\ raw' = Append(raw, raw'[Len(raw')])
          /\ raw'[Len(raw')].at = offset
          /\ offset' = offset + 11 + LittleEndian(data, offset + 7, 4)
          /\ Len(out') >= Len(out)
          /\ SubSeq(out', 1, Len(out)) = out
          /\ [k \in 1 .. Len(out') - Len(out) |-> out'[Len(out) + k].timestamp]
               = ExpectedTimestamps(<<raw'[Len(raw')]>>)]_vars

\* C13 witness: a traversal ended by a KeyError on the second record of a
\* batch, with the join before it yielded and nothing of the batch.
C13_Witness ==
  /\ pc = "raised"
  /\ exc.kind = "KeyError"
  /\ Len(raw) = 2
  /\ IsBatch(raw[2])
  /\ raw[2].params[1] = 2
  /\ raw[2].params[2] = FAST_TIME
  /\ exc.val = raw[2].params[3]
  /\ Len(out) = 1
  /\ out[1].timestamp < raw[2].timestamp
  /\ players[1].time_speed_factor = <<2, 1>>

\* a message with its player reference replaced by the Player it refers to
Resolved(m, heap) ==
  [m EXCEPT !.player = IF m.player.tag = "Player" THEN heap[m.player.v] ELSE m.player]

\* what a generator shows: where it stands, what it yielded with the players'
\* names and clocks, and the players its seats resolve to
View(t, heap) ==
  [pc |-> t.pc, exc |-> t.exc, offset |-> t.offset, raw |-> t.raw,
   out |-> [k \in 1 .. Len(t.out) |-> Resolved(t.out[k], heap)],
   map |-> [seat \in DOMAIN t.map |-> heap[t.map[seat]]]]

\* a generator alone on its own heap after n passes
RECURSIVE Alone(_)
Alone(n) ==
  IF n = 0 THEN [t |-> Traversal(replay), heap |-> <<>>]
  ELSE TraversalNext(Alone(n - 1).t, Alone(n - 1).heap)

SameAsAlone(t, solo) == View(t, players) = View(solo.t, solo.heap)

\* the Player objects generator t refers to
PlayersOf(t) ==
  {t.map[seat] : seat \in DOMAIN t.map}
  \cup {t.out[k].player.v : k \in {j \in 1 .. Len(t.out) : t.out[j].player.tag = "Player"}}

\* C14: of two generators of messages() over one container, resumed in any
\* order, each shows after n passes what a generator alone shows after n
\* passes (the same messages, player names and clock values), and the two
\* refer to no Player object in common.
C14_TraversalsAreIndependent ==
  probe.fn = "messages" =>
    /\ SameAsAlone(probe.t[1], Alone(probe.t[1].passes))
    /\ SameAsAlone(probe.t[2], Alone(probe.t[2].passes))
    /\ PlayersOf(probe.t[1]) \cap PlayersOf(probe.t[2]) = {}

\* C14 witness: both generators at their end, each having yielded a join and
\* a later message of the joined player, with their passes interleaved (the
\* players of the first are not all allocated before those of the second).
C14_Witness ==
  /\ probe.fn = "messages"
  /\ probe.t[1].pc = "done"
  /\ probe.t[2].pc = "done"
  /\ Len(probe.t[1].out) >= 3
  /\ Len(probe.t[2].out) >= 3
  /\ Len(players) = 4
  /\ PlayersOf(probe.t[1]) = {2, 3}
  /\ PlayersOf(probe.t[2]) = {1, 4}

\* the envelope the step reads, when it reads one
Read == raw'[Len(raw')]

\* C15, as claimed: a DISCONNECTED or ERROR envelope, or a well-formed chat
\* MESSAGE envelope, whose seat is not 255 and not in the seat map decodes to
\* one message whose player is the raw seat number, with no exception and no
\* Player changed.
C15_UnmappedSeatStandsIn ==
  [][(/\ Len(raw') = Len(raw) + 1
      /\ Read.seat # NONE_PLAYER
      /\ Read.seat \notin DOMAIN player_seat_map
      /\ \/ Read.msg_type \in {DISCONNECTED, ERROR}
         \/ /\ Read.msg_type = MESSAGE
            /\ Read.message = BROADCAST_TEXT
            /\ IsAscii(Read.params))
     => /\ pc' = "body"
        /\ exc' = NoExc
        /\ players' = players
        /\ Len(out') = Len(out) + 1
        /\ out'[Len(out')].player = IntV(Read.seat)]_vars

\* the step reads a DISCONNECTED or ERROR envelope whose seat is mapped
ReadsNetworkEventOfPlayer ==
  /\ Len(raw') = Len(raw) + 1
  /\ Read.msg_type \in {DISCONNECTED, ERROR}
  /\ Read.seat \in DOMAIN player_seat_map

\* the Player the envelope read resolves to, before the step
Resolves == player_seat_map[Read.seat]

\* C16, as claimed: decoding a Disconnected or an Error envelope attributed to
\* a Player leaves that player's time_position and last_timestamp unchanged.
C16_NetworkEventsSkipClock ==
  [][ReadsNetworkEventOfPlayer =>
       /\ players'[Resolves].time_position = players[Resolves].time_position
       /\ players'[Resolves].last_timestamp = players[Resolves].last_timestamp]_vars

\* C16, amended: decoding a Disconnected or an Error envelope attributed to a
\* Player succeeds and advances that player's clock as any other message
\* does: last_timestamp becomes the envelope's timestamp and time_position
\* grows by (timestamp - last_timestamp) / 2 * time_speed_factor rounded
\* toward zero; nothing else of any Player changes.
C16_NetworkEventsAdvanceClock ==
  [][ReadsNetworkEventOfPlayer =>
       /\ pc' = "body"
       /\ Len(out') = Len(out) + 1
       /\ out'[Len(out')].player = RefV(Resolves)
       /\ players' = [players EXCEPT
            ![Resolves].last_timestamp = Read.timestamp,
            ![Resolves].time_position =
               @ + TowardZero((Read.timestamp - players[Resolves].last_timestamp)
                                * players[Resolves].time_speed_factor[1],
                              2 * players[Resolves].time_speed_factor[2])]]_vars

\* C16 witness: an Error message and a Disconnected message whose clock
\* updates moved their player's time_position.
C16_Witness ==
  /\ \E k \in Attributed :
       /\ out[k].cls = "ErrorMessage"
       /\ out[k].upd.new_position # out[k].upd.position
       /\ out[k].upd.new_last # out[k].upd.last
  /\ \E k \in Attributed :
       /\ out[k].cls = "DisconnectedMessage"
       /\ out[k].upd.new_position # out[k].upd.position

\* the variant the command table lists for each command-type byte 0 .. 19
ListedVariant ==
  (MOVE_TIME_POSITION :> "MoveTimePosition") @@
  (FOLLOW_TO_TIME :> "MoveTimePosition") @@
  (ASSIGN_UNIT_OBJECTIVE :> "AssignUnitObjective") @@
  (ASSIGN_UNIT_OBJECTIVE_ONLY :> "AssignUnitObjectiveOnly") @@
  (MARK_UNIT :> "MarkUnit") @@
  (DELETE_EVENTS :> "UndoForUnit") @@
  (SET_BOOKMARK :> "SetBookmark") @@
  (JUMP_TO_BOOKMARK :> "JumpToBookmark") @@
  (CREATE_ALLIANCE :> "CreateAlliance") @@
  (BREAK_ALLIANCE :> "BreakAlliance") @@
  (GIVE_VISIBILITY_TO_PLAYER :> "ShareVision") @@
  (REVOKE_VISIBILITY_FROM_PLAYER :> "RevokeVision") @@
  (GIVE_COMMAND_ABILITY_TO_PLAYER :> "ShareControl") @@
  (REVOKE_COMMAND_ABILITY_FROM_PLAYER :> "RevokeControl") @@
  (FAST_TIME :> "SwitchFastForward") @@
  (SLOW_TIME :> "SwitchSlowMotion") @@
  (STOP_TIME :> "SwitchPause") @@
  (NORMAL_TIME :> "SwitchNormalTime") @@
  (DEBUG_RELOAD_SCRIPTS :> "ReloadScripts") @@
  (DELETE_NEXT_COMMAND_AND_JUMP_TO_TIME :> "DeleteNextCommand")

\* the envelope just read, the second, is a batch of the one record of the
\* tag with its listed payload, from the seat the first envelope joined
OneListedRecord(tag) ==
  /\ Len(raw) = 2
  /\ raw[1].msg_type = NEW_CLIENT
  /\ IsBatch(raw[2])
  /\ raw[2].seat = raw[1].seat
  /\ raw[2].params = <<1>> \o CommandRecord(tag)

\* C17, as claimed: every command-type byte 0 .. 19, given its listed
\* payload, decodes to the listed variant; 10, 11, 12 and 13 decode to
\* ShareVision, RevokeVision, ShareControl and RevokeControl with the seat
\* byte, and 19 decodes to DeleteNextCommand with its unit and direction.
C17_ListedTagsDecode ==
  \A tag \in DOMAIN ListedVariant :
    OneListedRecord(tag) =>
      /\ exc = NoExc
      /\ Len(out) = 2
      /\ out[2].cls = ListedVariant[tag]
      /\ tag \in GIVE_VISIBILITY_TO_PLAYER .. REVOKE_COMMAND_ABILITY_FROM_PLAYER
           => out[2].f = [arg |-> 1]
      /\ tag = DELETE_NEXT_COMMAND_AND_JUMP_TO_TIME
           => out[2].f = [unit |-> 9, direction |-> 1]

\* the envelope just read, the second, is the batch of the records of the
\* tags, each with its listed payload, from the seat the first envelope joined
ListedRecords(tags) ==
  /\ Len(raw) = 2
  /\ raw[1].msg_type = NEW_CLIENT
  /\ IsBatch(raw[2])
  /\ raw[2].seat = raw[1].seat
  /\ raw[2].params = EncodeBatch([k \in 1 .. Len(tags) |-> CommandRecord(tags[k])])

\* C18, as claimed: a batch of N records of decodable command types, each
\* with the payload its type takes, decodes to exactly N messages in record
\* order, for every N and every mix of types, and they follow the messages of
\* the envelopes before in the output.
C18_BatchYieldsEachRecord ==
  \A tags \in SeqsUpTo(Decoded, MaxBatch) :
    ListedRecords(tags) =>
      /\ exc = NoExc
      /\ Len(out) = 1 + Len(tags)
      /\ \A k \in 1 .. Len(tags) :
           /\ out[1 + k].cls = CommandTable[tags[k]]
           /\ out[1 + k].timestamp = raw[2].timestamp

\* the step reads a NEW_CLIENT envelope and decodes it
ReadsNewClient ==
  /\ Len(raw') = Len(raw) + 1
  /\ Read.msg_type = NEW_CLIENT
  /\ exc' = NoExc

\* C19, as claimed: after a NewClient envelope for seat s with name n
\* decodes, seat s resolves to a Player with seat s and name n, whether or
\* not seat s was mapped before.
C19_NewClientOverwrites ==
  [][ReadsNewClient =>
       /\ Read.seat \in DOMAIN player_seat_map'
       /\ players'[player_seat_map'[Read.seat]].seat = IntV(Read.seat)
       /\ players'[player_seat_map'[Read.seat]].name = Read.params]_vars

\* C19, amended: after a NewClient envelope for seat s with name n decodes,
\* seat s resolves to a Player with seat s.  If s was unmapped it is a new
\* Player with the ASCII name n; if s was mapped it is the Player s resolved
\* to before, with the name that Player had, and no Player is made.  The
\* message carries that Player.
C19_NewClientKeepsMappedPlayer ==
  [][ReadsNewClient =>
       /\ Read.seat \in DOMAIN player_seat_map'
       /\ Len(out') = Len(out) + 1
       /\ out'[Len(out')].player = RefV(player_seat_map'[Read.seat])
       /\ players'[player_seat_map'[Read.seat]].seat = IntV(Read.seat)
       /\ IF Read.seat \in DOMAIN player_seat_map
          THEN /\ player_seat_map' = player_seat_map
               /\ Len(players') = Len(players)
               /\ players'[Resolves].name = players[Resolves].name
          ELSE /\ player_seat_map' = MapSet(player_seat_map, Read.seat, Len(players) + 1)
               /\ Len(players') = Len(players) + 1
               /\ IsAscii(Read.params)
               /\ players'[Len(players')].name = Read.params]_vars

\* C19 witness: two NewClient envelopes for one seat with different names
\* decoded to messages of the same Player, which has the first name.
C19_Witness ==
  /\ Len(out) >= 2
  /\ out[1].cls = "NewClientMessage"
  /\ out[2].cls = "NewClientMessage"
  /\ raw[1].seat = raw[2].seat
  /\ raw[1].params # raw[2].params
  /\ out[1].player = out[2].player
  /\ out[2].player.tag = "Player"
  /\ player_seat_map[raw[2].seat] = out[2].player.v
  /\ players[out[2].player.v].name = raw[1].params

\* the factor each speed command sets: 2, 0.5, 0 and 1
FactorSetBy(cls) ==
  CASE cls = "SwitchFastForward" -> <<2, 1>>
    [] cls = "SwitchSlowMotion" -> <<1, 2>>
    [] cls = "SwitchPause" -> <<0, 1>>
    [] cls = "SwitchNormalTime" -> <<1, 1>>

\* the factor the speed commands ks leave: that of the last, 1 without any
FactorAfter(ks) == IF ks = {} THEN <<1, 1>> ELSE FactorSetBy(out[Last(ks)].cls)

\* the speed commands decoded so far for the Player players[i]
SpeedCommandsOf(i) == {k \in MessagesOf(i) : out[k].cls \in SpeedCommands}

\* C20: while decoding succeeds, every Player's time_speed_factor is the one
\* set by the last speed command decoded for that Player (2, 0.5, 0, 1 for
\* SwitchFastForward, SwitchSlowMotion, SwitchPause, SwitchNormalTime) and 1
\* if there was none, whatever other messages of this or another seat were
\* decoded; and the clock update of every message, a speed command's own
\* included, was made at the factor left by the speed commands before it.
C20_FactorFollowsSpeedCommands ==
  /\ exc = NoExc =>
       \A i \in 1 .. Len(players) :
         players[i].time_speed_factor = FactorAfter(SpeedCommandsOf(i))
  /\ \A k \in Attributed :
       /\ out[k].upd.called
       /\ out[k].upd.factor = FactorAfter(SpeedCommandsBefore(k))

\* C20 witness: seat 0 switched to fast forward, its own advance made at
\* factor 1, then seat 1 paused; seat 0 is at factor 2 and seat 1 at 0.
C20_Witness ==
  /\ Len(out) = 4
  /\ out[3].cls = "SwitchFastForward"
  /\ out[3].player = RefV(1)
  /\ out[3].upd.factor = <<1, 1>>
  /\ out[3].upd.new_position = out[3].upd.position + 4
  /\ out[4].cls = "SwitchPause"
  /\ out[4].player = RefV(2)
  /\ players[1].time_speed_factor = <<2, 1>>
  /\ players[2].time_speed_factor = <<0, 1>>

\* the step reads a command batch of a resolved Player and yields its
\* messages, the last of them a MoveTimePosition
ReadsJump ==
  /\ Len(raw') = Len(raw) + 1
  /\ IsBatch(Read)
  /\ Read.seat \in DOMAIN player_seat_map
  /\ exc' = NoExc
  /\ Len(out') > Len(out)
  /\ out'[Len(out')].cls = "MoveTimePosition"

\* the u32 in the last four bytes of the envelope read
JumpTarget == LittleEndian(Read.params, Len(Read.params) - 4, 4)

\* C21: after a MoveTimePosition or FollowToTime command (tag 0 or 1) with
\* target t by a resolved Player decodes, that player's time_position is t,
\* whatever the position, the elapsed ticks and the factor were, the clock
\* update of the message having been made first; last_timestamp is the
\* envelope's timestamp.
C21_JumpSetsPosition ==
  [][ReadsJump =>
       /\ Read.params[Len(Read.params) - 4] \in {MOVE_TIME_POSITION, FOLLOW_TO_TIME}
       /\ out'[Len(out')].player = RefV(Resolves)
       /\ out'[Len(out')].f.target_time = JumpTarget
       /\ out'[Len(out')].upd.called
       /\ players'[Resolves].time_position = JumpTarget
       /\ players'[Resolves].last_timestamp = Read.timestamp]_vars

\* C21 witness: a fast player at position 3 jumped to 65539 in a message
\* whose own clock update had moved the position to 13, and the next
\* message's update started from 65539.
C21_Witness ==
  /\ Len(out) = 4
  /\ out[3].cls = "MoveTimePosition"
  /\ out[3].f.target_time = 65539
  /\ out[3].upd.factor = <<2, 1>>
  /\ out[3].upd.position = 3
  /\ out[3].upd.new_position = 13
  /\ out[4].upd.position = 65539

\* the bytes of the buffer from the cursor on
Remaining == Len(data) - offset

\* C22, as claimed: the iteration over the raw envelopes ends normally only
\* with the cursor at the end of the buffer, and with 1 to 10 bytes left at
\* the cursor it raises the truncation error (struct.error), the envelopes
\* before having been yielded and none after.
C22_StopsOnlyAtEnd ==
  [][pc = "body" =>
       /\ pc' = "done" => offset' = Len(data)
       /\ Remaining \in 1 .. 10 =>
            /\ pc' = "raised"
            /\ exc' = StructError
            /\ raw' = raw
            /\ out' = out]_vars

\* the step reads a NEW_BANNED_CLIENT envelope and decodes it
ReadsBannedClient ==
  /\ Len(raw') = Len(raw) + 1
  /\ Read.msg_type = NEW_BANNED_CLIENT
  /\ exc' = NoExc

\* C23: decoding a NewBannedClient envelope makes one new Player, which the
\* message carries, and leaves the seat map as it was: the envelope's seat
\* resolves as before, so does every other seat, the new Player is under no
\* seat, and no Player there was changes.
C23_BannedClientIsNotMapped ==
  [][ReadsBannedClient =>
       /\ player_seat_map' = player_seat_map
       /\ Len(players') = Len(players) + 1
       /\ \A i \in 1 .. Len(players) : players'[i] = players[i]
       /\ \A s \in DOMAIN player_seat_map' : player_seat_map'[s] # Len(players')
       /\ Len(out') = Len(out) + 1
       /\ out'[Len(out')].cls = "NewBannedClientMessage"
       /\ out'[Len(out')].player = RefV(Len(players'))
       /\ players'[Len(players')].name = Read.params]_vars

\* C23 witness: a banned join for an unmapped seat, a join, and a banned join
\* for the seat now mapped; three Players were made and the seat resolves to
\* the second.
C23_Witness ==
  /\ Len(out) = 3
  /\ out[1].cls = "NewBannedClientMessage"
  /\ out[2].cls = "NewClientMessage"
  /\ out[3].cls = "NewBannedClientMessage"
  /\ raw[1].seat = raw[3].seat
  /\ Len(players) = 3
  /\ player_seat_map = (raw[2].seat :> 2)
  /\ out[3].player = RefV(3)

\* the traversal has ended, by exhaustion or by an error
Ended == pc \in {"done", "raised"}

\* C24: on every buffer the iteration over the raw envelopes ends, by
\* exhaustion or by an error; the cursor never moves backward, and every
\* envelope read moves it forward by at least 11 bytes (by 11 plus the
\* declared length of the parameter block).
C24_IterationTerminates ==
  /\ <>Ended
  /\ [][/\ offset' >= offset
        /\ Len(raw') = Len(raw) + 1 =>
             /\ Read.at = offset
             /\ offset' = offset + 11 + LittleEndian(data, offset + 7, 4)
             /\ offset' >= offset + 11]_vars

\* C24 witness: two envelopes without parameters were read, the cursor moved
\* by 11 bytes for each, and the iteration ended at the end of the buffer.
C24_Witness ==
  /\ pc = "done"
  /\ Len(raw) = 2
  /\ raw[1].at = replay.base_offset
  /\ raw[2].at = raw[1].at + 11
  /\ offset = raw[2].at + 11
  /\ offset = Len(data)

\* the step reads a command batch of a resolved Player and decodes it
ReadsBatchOfPlayer ==
  /\ Len(raw') = Len(raw) + 1
  /\ IsBatch(Read)
  /\ Read.seat \in DOMAIN player_seat_map
  /\ exc' = NoExc

\* the commands the step yields: each carries the envelope's timestamp and
\* the Player; the first one's clock update starts from the player's state
\* before the step and advances by the elapsed ticks, every later one's
\* starts at the envelope's timestamp and leaves the position the one before
\* left
BatchClock ==
  \A k \in Len(out) + 1 .. Len(out') :
    /\ out'[k].timestamp = Read.timestamp
    /\ out'[k].player = RefV(Resolves)
    /\ out'[k].upd.called
    /\ out'[k].upd.new_last = Read.timestamp
    /\ IF k = Len(out) + 1
       THEN /\ out'[k].upd.last = players[Resolves].last_timestamp
            /\ out'[k].upd.position = players[Resolves].time_position
            /\ out'[k].upd.new_position =
                 out'[k].upd.position
                   + TowardZero((Read.timestamp - out'[k].upd.last) * out'[k].upd.factor[1],
                                2 * out'[k].upd.factor[2])
       ELSE /\ out'[k].upd.last = Read.timestamp
            /\ out'[k].upd.position = PositionAfter(out'[k - 1])
            /\ out'[k].upd.new_position = out'[k].upd.position

\* C25, as claimed: the commands of a batch carry the envelope's timestamp,
\* the first advances the clock by the elapsed ticks and every later one by
\* 0, and after the batch last_timestamp is the envelope's timestamp.
C25_BatchAdvancesOnce ==
  [][ReadsBatchOfPlayer =>
       /\ BatchClock
       /\ players'[Resolves].last_timestamp = Read.timestamp]_vars

\* C25, amended: the same for a batch of at least one command; a batch of
\* count 0 yields no message and leaves every Player as it was, the
\* player's last_timestamp included.
C25_BatchWithCommandsAdvancesOnce ==
  [][ReadsBatchOfPlayer =>
       /\ BatchClock
       /\ Len(out') = Len(out) + Read.params[1]
       /\ IF Read.params[1] > 0
          THEN players'[Resolves].last_timestamp = Read.timestamp
          ELSE players' = players]_vars

\* C25 witness: a batch of a SwitchFastForward and a MarkUnit of a player
\* last seen 4 ticks before: the first advanced the position by 2 at factor
\* 1, the second by 0 at factor 2, and last_timestamp is the envelope's.
C25_Witness ==
  /\ Len(raw) = 2
  /\ IsBatch(raw[2])
  /\ Len(out) = 3
  /\ out[2].cls = "SwitchFastForward"
  /\ out[2].upd.last = raw[2].timestamp - 4
  /\ out[2].upd.new_position = out[2].upd.position + 2
  /\ out[3].cls = "MarkUnit"
  /\ out[3].timestamp = raw[2].timestamp
  /\ out[3].upd.factor = <<2, 1>>
  /\ out[3].upd.last = raw[2].timestamp
  /\ out[3].upd.new_position = out[3].upd.position
  /\ players[1].last_timestamp = raw[2].timestamp

\* the seats with a NEW_CLIENT envelope among those read and no DISCONNECTED
\* envelope read after it
Joined ==
  {raw[j].seat : j \in {i \in 1 .. Len(raw) :
                          /\ raw[i].msg_type = NEW_CLIENT
                          /\ \A k \in i + 1 .. Len(raw) :
                               ~(raw[k].msg_type = DISCONNECTED /\ raw[k].seat = raw[i].seat)}}

\* C26: while no envelope has failed to decode, the seat map holds exactly
\* the seats with a decoded NewClient envelope and no later Disconnected
\* one; always every entry maps its seat s to a Player whose seat is s; and
\* a step changes at most the entry of the seat of the envelope it reads:
\* sets it on a decoded NewClient, removes it on a decoded Disconnected, and
\* leaves it otherwise.
C26_MapFollowsJoins ==
  /\ [](/\ pc # "raised" => DOMAIN player_seat_map = Joined
        /\ \A s \in DOMAIN player_seat_map :
             /\ player_seat_map[s] \in 1 .. Len(players)
             /\ players[player_seat_map[s]].seat = IntV(s))
  /\ [][IF Len(raw') = Len(raw) + 1
        THEN /\ \A s \in (DOMAIN player_seat_map \cup DOMAIN player_seat_map') \ {Read.seat} :
                  /\ s \in DOMAIN player_seat_map
                  /\ s \in DOMAIN player_seat_map'
                  /\ player_seat_map'[s] = player_seat_map[s]
             /\ Read.seat \in DOMAIN player_seat_map' <=>
                  \/ exc' = NoExc /\ Read.msg_type = NEW_CLIENT
                  \/ /\ Read.seat \in DOMAIN player_seat_map
                     /\ ~(exc' = NoExc /\ Read.msg_type = DISCONNECTED)
             /\ (Read.seat \in DOMAIN player_seat_map /\ Read.seat \in DOMAIN player_seat_map')
                  => player_seat_map'[Read.seat] = player_seat_map[Read.seat]
        ELSE player_seat_map' = player_seat_map]_vars

\* C26 witness: seats 0 and 1 joined and seat 0 disconnected; the map holds
\* seat 1 alone, with the second Player.
C26_Witness ==
  /\ pc # "raised"
  /\ Len(raw) >= 3
  /\ \E i, j, k \in 1 .. Len(raw) :
       /\ i < k
       /\ raw[i].msg_type = NEW_CLIENT /\ raw[i].seat = 0
       /\ raw[j].msg_type = NEW_CLIENT /\ raw[j].seat = 1
       /\ raw[k].msg_type = DISCONNECTED /\ raw[k].seat = 0
  /\ DOMAIN player_seat_map = {1}
  /\ players[player_seat_map[1]].seat = IntV(1)

=============================================================================
